---- MODULE Spec2Model ----
(***************************************************************************)
(* LeVe Coach: the recommendation engine (engine.js) and the data-access   *)
(* layer it reads and writes (data.js).                                    *)
(*                                                                         *)
(* Number representation.  Percentages are integers counted in units of    *)
(* 1/Scale, with Scale chosen so that every coefficient of the engine      *)
(* (0.025, 0.05, 0.25, the 0.6 and 0.4 day multipliers, 0.005/n for        *)
(* n = 4..6, the halving of the YELLOW cap) is a whole number of units.    *)
(* Dates are whole day numbers (an ISO date string orders and subtracts    *)
(* as its day number); day 0 is a Monday.  Loads are in kg, estimated      *)
(* maxima in 1/60 kg, target loads in half kg.  null is the string "null". *)
(***************************************************************************)
EXTENDS Integers, Sequences, FiniteSets, TLC

\* ------------------------------------------------------------------ bounds
MaxTicks == 2
MaxSessions == 1
MaxRuns == 2
MaxOffset == 35
MaxAdjustments == 2
MaxCalls == 3
MaxSeeds == 2

\* ------------------------------------------------------- number utilities
Scale == 24 * 1000
Pct(num, den) == (num * Scale) \div den

\* null: the string "null" where the value is a string, NoNum where it is a
\* number (every number of the engine that can be null is otherwise >= 0), and
\* the empty sequence None where it is an object (an object o is then <<o>>)
NULL == "null"
NoNum == 0 - 1
None == <<>>
Some(o) == <<o>>
Falsy(x) == x = NoNum \/ x = 0

Min2(a, b) == IF a <= b THEN a ELSE b
Max2(a, b) == IF a >= b THEN a ELSE b
Abs(a) == IF a < 0 THEN -a ELSE a

\* Number.prototype.toFixed / Math.round on the exact quotient n/d (d > 0),
\* halves away from zero for toFixed, halves up for Math.round.
RoundHalfUp(n, d) == (2 * n + d) \div (2 * d)
ToFixed(n, d) == IF n >= 0 THEN (2 * n + d) \div (2 * d) ELSE -((2 * (-n) + d) \div (2 * d))

clamp(value, min, max) == Max2(min, Min2(max, value))

\* The operators below take sequences that are values already; none recurses,
\* so that each is evaluated in a number of steps fixed by the sequence length.
Only(S) == CHOOSE x \in S : TRUE

\* the sum of a sequence of numbers
SeqSum(s) ==
    LET sum[i \in 0..Len(s)] == IF i = 0 THEN 0 ELSE s[i] + sum[i - 1]
    IN sum[Len(s)]

\* indices (ascending) of the positions where keep is TRUE: Array.prototype.filter
SelectSeqIdx(keep) ==
    LET kept == {j \in 1..Len(keep) : keep[j]}
        before(j) == Cardinality({k \in kept : k < j})
    IN [i \in 1..Cardinality(kept) |-> CHOOSE j \in kept : before(j) = i - 1]

\* Array.prototype.slice(-n)
SliceLast(s, n) == IF Len(s) <= n THEN s ELSE SubSeq(s, Len(s) - n + 1, Len(s))

\* Array.prototype.sort by an integer key per element: stable, ascending.  The
\* element of index j lands behind the elements of smaller key and the earlier
\* elements of equal key.
SortBy(s, keys) ==
    LET rank(j) == Cardinality({k \in 1..Len(s) :
                       keys[k] < keys[j] \/ (keys[k] = keys[j] /\ k < j)})
    IN [i \in 1..Len(s) |-> s[CHOOSE j \in 1..Len(s) : rank(j) = i - 1]]

\* median(arr): 0 on empty input, the middle element, or the mean of the two
\* middle elements (the values used here are even, so the mean is whole)
median(arr) ==
    IF Len(arr) = 0 THEN 0
    ELSE Only({IF Len(sorted) % 2 = 1 THEN sorted[(Len(sorted) \div 2) + 1]
               ELSE (sorted[Len(sorted) \div 2] + sorted[(Len(sorted) \div 2) + 1]) \div 2 :
               sorted \in {SortBy(arr, arr)}})

\* --------------------------------------------------------------- constants
\* DAY_TYPE_MULTIPLIERS, in tenths; a day type outside the table counts 1.0
DAY_TYPE_MULTIPLIERS(dayType) ==
    CASE dayType = "heavy" -> 10
      [] dayType = "volume" -> 6
      [] dayType = "speed" -> 4
      [] dayType = "accessory" -> 0
      [] dayType = "rest" -> 0
      [] OTHER -> 10

\* DAY_TYPE_SET_RECIPES[dayType].sets (its first element when it is a range);
\* NoNum when the day type has no recipe
DAY_TYPE_SET_RECIPES(dayType) ==
    CASE dayType = "heavy" -> 3
      [] dayType = "volume" -> 4
      [] dayType = "speed" -> 4
      [] OTHER -> NoNum

DayTypes == {"heavy", "volume", "speed"}
Classes == {"GREEN", "YELLOW", "RED"}

\* ------------------------------------------------------------------- e1RM
\* e1rmSystem, in 1/60 kg: systemLoad * (1 + (reps + vara) / 30)
e1rmSystem(bodyweightKg, externalLoadKg, reps, vara) ==
    LET systemLoad == bodyweightKg + externalLoadKg
    IN IF systemLoad <= 0 \/ reps < 1 THEN NoNum
       ELSE LET effectiveReps == reps + (IF vara = NoNum THEN 2 ELSE vara)
            IN 2 * systemLoad * (30 + effectiveReps)

\* -------------------------------------------------------------- readiness
Channel(name, cls) == [channel |-> name, class |-> cls]

\* the 2/3 rule without the velocity veto
combineWithoutVeto(velocityR, hrvR, varaR) ==
    LET channels == <<velocityR, hrvR, varaR>>
        active == {i \in 1..3 : channels[i].class # NULL}
        count(c) == Cardinality({i \in active : channels[i].class = c})
        combined == IF active = {} \/ count("GREEN") >= 2 THEN "GREEN"
                    ELSE IF count("RED") >= 2 \/ (count("RED") >= 1 /\ count("YELLOW") >= 1)
                         THEN "RED"
                    ELSE "YELLOW"
    IN [combined |-> combined,
        capLevel |-> IF combined = "GREEN" THEN 0 ELSE IF combined = "YELLOW" THEN 1 ELSE 2,
        channels |-> [velocity |-> velocityR, hrv |-> hrvR, vara |-> varaR]]

\* a fusion that takes a single GREEN channel for GREEN and knows no veto
combineGreenFromOne(velocityR, hrvR, varaR) ==
    LET channels == <<velocityR, hrvR, varaR>>
        active == {i \in 1..3 : channels[i].class # NULL}
        count(c) == Cardinality({i \in active : channels[i].class = c})
        combined == IF count("GREEN") = Cardinality(active) \/ count("GREEN") >= 2 THEN "GREEN"
                    ELSE IF count("RED") >= 2 \/ (count("RED") >= 1 /\ count("YELLOW") >= 1)
                         THEN "RED"
                    ELSE "YELLOW"
    IN [combined |-> combined,
        capLevel |-> IF combined = "GREEN" THEN 0 ELSE IF combined = "YELLOW" THEN 1 ELSE 2,
        channels |-> [velocity |-> velocityR, hrv |-> hrvR, vara |-> varaR]]

\* a fusion that takes exactly two RED channels for RED and knows no veto
combineExactlyTwoRed(velocityR, hrvR, varaR) ==
    LET channels == <<velocityR, hrvR, varaR>>
        active == {i \in 1..3 : channels[i].class # NULL}
        count(c) == Cardinality({i \in active : channels[i].class = c})
        combined == IF active = {} \/ count("GREEN") >= 2 THEN "GREEN"
                    ELSE IF count("RED") = 2 \/ (count("RED") >= 1 /\ count("YELLOW") >= 1)
                         THEN "RED"
                    ELSE "YELLOW"
    IN [combined |-> combined,
        capLevel |-> IF combined = "GREEN" THEN 0 ELSE IF combined = "YELLOW" THEN 1 ELSE 2,
        channels |-> [velocity |-> velocityR, hrv |-> hrvR, vara |-> varaR]]

\* combineReadiness: the 2/3 rule and the velocity veto
combineReadiness(velocityR, hrvR, varaR) ==
    LET channels == <<velocityR, hrvR, varaR>>
        active == {i \in 1..3 : channels[i].class # NULL}
        count(c) == Cardinality({i \in active : channels[i].class = c})
        base == IF count("GREEN") >= 2 THEN "GREEN"
                ELSE IF count("RED") >= 2 \/ (count("RED") >= 1 /\ count("YELLOW") >= 1)
                     THEN "RED"
                ELSE "YELLOW"
        escalated == IF base = "GREEN" THEN "YELLOW" ELSE base
        othersYellowOrRed ==
            Cardinality({i \in 2..3 : channels[i].class \in {"YELLOW", "RED"}})
        combined == IF velocityR.class = "RED"
                    THEN (IF othersYellowOrRed >= 1 THEN "RED" ELSE escalated)
                    ELSE base
        capLevel == IF combined = "GREEN" THEN 0 ELSE IF combined = "YELLOW" THEN 1 ELSE 2
        chans == [velocity |-> velocityR, hrv |-> hrvR, vara |-> varaR]
    IN IF active = {}
       THEN [combined |-> "GREEN", capLevel |-> 0, channels |-> chans]
       ELSE [combined |-> combined, capLevel |-> capLevel, channels |-> chans]

\* ------------------------------------------------------ readiness channels
\* Samples (mean velocity in m/s, lnRMSSD) are in hundredths and multiples of
\* 4, so every median is whole; a sigma is in millionths.
mad(arr) ==
    Only({median([i \in 1..Len(arr) |-> Abs(arr[i] - med)]) : med \in {median(arr)}})

\* madSigma: 1.4826 * MAD, or 1e-6 when that is zero
madSigma(arr) ==
    Only({IF 14826 * rawMad = 0 THEN 1 ELSE 14826 * rawMad : rawMad \in {mad(arr)}})

\* zScore: the quotient (value - med) / max(1e-6, sigma), kept as <<num, den>>
\* in millionths, den > 0
zScore(value, med, sigma) == <<(value - med) * 10000, Max2(1, sigma)>>

\* computeBaseline: null under 3 windowed values
computeBaseline(values, windowN) ==
    Only({IF Len(windowed) < 3 THEN None
          ELSE Some([median |-> median(windowed), madSigma |-> madSigma(windowed),
                     n |-> Len(windowed)]) :
          windowed \in {SliceLast(values, windowN)}})

\* classifyReadinessZ: z >= -0.5 GREEN, z >= -1.0 YELLOW, else RED
classifyReadinessZ(z) ==
    IF 2 * z[1] >= -z[2] THEN "GREEN"
    ELSE IF z[1] >= -z[2] THEN "YELLOW"
    ELSE "RED"

\* the z-score channel shared by velocityReadiness and hrvReadiness
ZChannel(name, sample, baselineValues, windowN) ==
    IF sample = NoNum
    THEN [z |-> None, class |-> NULL, channel |-> name, baseline |-> None]
    ELSE Only({IF baseline = None
               THEN [z |-> None, class |-> NULL, channel |-> name, baseline |-> None]
               ELSE Only({[z |-> Some(z), class |-> classifyReadinessZ(z),
                           channel |-> name, baseline |-> baseline] :
                          z \in {zScore(sample, baseline[1].median, baseline[1].madSigma)}}) :
               baseline \in {computeBaseline(baselineValues, windowN)}})

\* velocityReadiness, window 10 by default
velocityReadiness(todayVelocity, baselineValues) ==
    ZChannel("velocity", todayVelocity, baselineValues, 10)

\* hrvReadiness, window 14 by default
hrvReadiness(todayLnRMSSD, baselineValues) ==
    ZChannel("hrv", todayLnRMSSD, baselineValues, 14)

\* the sets of the window that carry both targetVx and actualVx
VaraUsable(recentTopSets, windowN) ==
    Only({Only({[i \in 1..Len(idx) |-> windowed[idx[i]]] :
                idx \in {SelectSeqIdx([j \in 1..Len(windowed) |->
                             windowed[j].targetVx # NoNum /\ windowed[j].actualVx # NoNum])}}) :
          windowed \in {SliceLast(recentTopSets, windowN)}})

\* varaReadiness: mean overshoot (targetVx - actualVx) over the usable sets of
\* the window; meanOvershoot is kept as <<sum, n>>
varaReadiness(recentTopSets, windowN) ==
    Only({IF Len(usable) < 2
          THEN [z |-> None, class |-> NULL, channel |-> "vara", meanOvershoot |-> None]
          ELSE Only({[z |-> None, meanOvershoot |-> Some(<<total, Len(usable)>>),
                      class |-> IF total >= 2 * Len(usable) THEN "RED"
                                ELSE IF total >= Len(usable) THEN "YELLOW"
                                ELSE "GREEN",
                      channel |-> "vara"] :
                     total \in {SeqSum([i \in 1..Len(usable) |->
                                   usable[i].targetVx - usable[i].actualVx])}}) :
          usable \in {VaraUsable(recentTopSets, windowN)}})

\* -------------------------------------------------------------- mesocycle
Slot(role, category, name, sets, reps, targetVx) ==
    [role |-> role, category |-> category, defaultMovementName |-> name,
     sets |-> sets, reps |-> reps, targetVx |-> targetVx]

Primary(sets, reps, vx) == Slot("primary", "vertikaaliveto", "Lisapainoleuanveto", sets, reps, vx)

WeekDef(week, base, label, heavyReps, heavyTargetVx) ==
    [week |-> week, deltaPctBase |-> base, label |-> label,
     heavyReps |-> heavyReps, heavyTargetVx |-> heavyTargetVx]

DayPlan(dayOfWeek, dayType, slots) == [dayOfWeek |-> dayOfWeek, dayType |-> dayType, slots |-> slots]

\* the heavy / volume / heavy days of weeks 1..3; vx is the week's accessory target
HeavyMonday(reps, pvx, vx) ==
    DayPlan(1, "heavy", <<Primary(3, reps, pvx),
        Slot("accessory", "horisontaalityonto", "Penkkipunnerrus", 4, 6, vx),
        Slot("accessory", "horisontaaliveto", "Penkkiveto", 3, 8, vx),
        Slot("accessory", "hauisfleksio", "Hauiskaanto tanko", 3, 10, NoNum)>>)

VolumeWednesday(sets, reps, pvx) ==
    DayPlan(3, "volume", <<Primary(sets, reps, pvx),
        Slot("accessory", "vertikaalityonto", "Pystypunnerrus", 4, 8, 3),
        Slot("accessory", "vertikaaliveto", "Ylatalja", 3, 10, 3),
        Slot("accessory", "ojentajaekstensio", "Tricep pushdown", 3, 12, NoNum)>>)

HeavyFriday(reps, pvx, vx) ==
    DayPlan(5, "heavy", <<Primary(3, reps, pvx),
        Slot("accessory", "horisontaalityonto", "Chest press", 4, 8, vx),
        Slot("accessory", "horisontaaliveto", "Alatalja", 3, 10, vx),
        Slot("accessory", "hauisfleksio", "Hammer curl", 3, 10, NoNum)>>)

DeloadDays ==
    <<DayPlan(1, "heavy", <<Primary(3, 3, 4),
        Slot("accessory", "horisontaalityonto", "Penkkipunnerrus", 3, 6, 4),
        Slot("accessory", "horisontaaliveto", "Penkkiveto", 3, 8, 4)>>),
      DayPlan(3, "volume", <<Primary(3, 5, 4),
        Slot("accessory", "vertikaalityonto", "Pystypunnerrus", 3, 8, 4),
        Slot("accessory", "vertikaaliveto", "Ylatalja", 3, 10, 4)>>),
      DayPlan(5, "speed", <<Primary(4, 2, 4)>>)>>

DefaultWeekDefs ==
    <<WeekDef(1, 0, "Adaptaatio", 3, 2),
      WeekDef(2, Pct(25, 1000), "Loading", 3, 2),
      WeekDef(3, Pct(5, 100), "Overreach", 2, 1),
      WeekDef(4, -Pct(25, 100), "Deload", 3, 4)>>

DefaultWeekPlans ==
    <<[week |-> 1, days |-> <<HeavyMonday(3, 2, 3), VolumeWednesday(5, 5, 3), HeavyFriday(3, 2, 3)>>],
      [week |-> 2, days |-> <<HeavyMonday(3, 2, 3), VolumeWednesday(5, 5, 3), HeavyFriday(3, 2, 3)>>],
      [week |-> 3, days |-> <<HeavyMonday(2, 1, 2), VolumeWednesday(4, 4, 2), HeavyFriday(2, 1, 2)>>],
      [week |-> 4, days |-> DeloadDays]>>

\* createDefaultMesocycle(startDateISO); id is the value uid() returns
createDefaultMesocycle(startDateISO, id) ==
    [mesocycleId |-> id, startDateISO |-> startDateISO, weekCount |-> 4,
     weekDefs |-> DefaultWeekDefs, weekPlans |-> DefaultWeekPlans]

\* Array.prototype.find: the first element of s whose position keep marks
FirstWhere(s, keep) ==
    LET I == {i \in 1..Len(s) : keep[i]}
    IN IF I = {} THEN None ELSE Some(s[CHOOSE i \in I : \A j \in I : i <= j])

\* a week number that does not look at the length of the cycle
weekWithoutEnd(mesocycle, dateISO) ==
    IF dateISO < mesocycle.startDateISO THEN NoNum
    ELSE ((dateISO - mesocycle.startDateISO) \div 7) + 1

\* getMesocycleWeek(mesocycle, dateISO)
getMesocycleWeek(mesocycle, dateISO) ==
    LET diffDays == dateISO - mesocycle.startDateISO
        weekNum == (diffDays \div 7) + 1
    IN IF diffDays < 0 THEN NoNum
       ELSE IF weekNum > mesocycle.weekCount THEN NoNum
       ELSE weekNum

\* getWeekDef(mesocycle, weekNum)
getWeekDef(mesocycle, weekNum) ==
    FirstWhere(mesocycle.weekDefs,
               [i \in 1..Len(mesocycle.weekDefs) |-> mesocycle.weekDefs[i].week = weekNum])

\* a day lookup that measures the distance between weekdays without wrap-around
nearestWithoutWrap(mesocycle, weekNum, dayOfWeek) ==
    LET weekPlan == FirstWhere(mesocycle.weekPlans,
                        [i \in 1..Len(mesocycle.weekPlans) |-> mesocycle.weekPlans[i].week = weekNum])
    IN IF weekPlan = None THEN None
       ELSE IF Len(weekPlan[1].days) = 0 THEN None
       ELSE LET days == weekPlan[1].days
                best == CHOOSE i \in 1..Len(days) :
                            /\ \A j \in 1..Len(days) :
                                  Abs(days[i].dayOfWeek - dayOfWeek) <= Abs(days[j].dayOfWeek - dayOfWeek)
                            /\ \A j \in 1..(i - 1) :
                                  Abs(days[j].dayOfWeek - dayOfWeek) > Abs(days[i].dayOfWeek - dayOfWeek)
            IN Some(days[best])

\* getTodayPlan(mesocycle, weekNum, dayOfWeek): the exact weekday, else the
\* first day of the week plan at the smallest wrap-around distance
getTodayPlan(mesocycle, weekNum, dayOfWeek) ==
    LET weekPlan == FirstWhere(mesocycle.weekPlans,
                        [i \in 1..Len(mesocycle.weekPlans) |-> mesocycle.weekPlans[i].week = weekNum])
    IN IF weekPlan = None THEN None
       ELSE IF Len(weekPlan[1].days) = 0 THEN None
       ELSE LET days == weekPlan[1].days
                exact == FirstWhere(days, [i \in 1..Len(days) |-> days[i].dayOfWeek = dayOfWeek])
                wrapDist(i) == LET dist == Abs(days[i].dayOfWeek - dayOfWeek)
                               IN Min2(dist, 7 - dist)
                best == CHOOSE i \in 1..Len(days) :
                            /\ \A j \in 1..Len(days) : wrapDist(i) <= wrapDist(j)
                            /\ \A j \in 1..(i - 1) : wrapDist(j) > wrapDist(i)
            IN IF exact # None THEN exact ELSE Some(days[best])

\* new Date(dateISO).getDay() || 7, with day 0 a Monday: 1 = Mon .. 7 = Sun
DayOfWeek(dateISO) == (dateISO % 7) + 1

\* ------------------------------------------------------------ corrections
HasVara(s) == s.actualVx # NoNum /\ s.targetVx # NoNum

\* the sets with both Vx values recorded, in order
WithVara(recentSets) ==
    Only({[i \in 1..Len(idx) |-> recentSets[idx[i]]] :
          idx \in {SelectSeqIdx([i \in 1..Len(recentSets) |-> HasVara(recentSets[i])])}})

\* the correction of a mean overshoot total / n: meanOvr * 0.005 inside the clamp
TrendOf(total, n, maxCorrection) ==
    IF n < 4 THEN 0
    ELSE IF 2 * total > n THEN clamp((total * Pct(5, 1000)) \div n, 0, maxCorrection)
    ELSE IF 2 * total < -n THEN clamp(-(((-total) * Pct(5, 1000)) \div n), -maxCorrection, 0)
    ELSE 0

\* varaTrendCorrection(recentTopSets), maxCorrection = 0.015
varaTrendCorrection(recentTopSets) ==
    Only({TrendOf(SeqSum([i \in 1..Len(withVara) |-> withVara[i].targetVx - withVara[i].actualVx]),
                  Len(withVara), Pct(15, 1000)) :
          withVara \in {SliceLast(WithVara(recentTopSets), 6)}})

\* varaFeedback(recentSets): the type of the suggestion, NULL when none
varaFeedback(recentSets) ==
    Only({IF Len(withVara) < 3 THEN NULL
          ELSE LET last3 == SliceLast(withVara, 3)
                   allTooEasy == \A k \in 1..3 : last3[k].actualVx > last3[k].targetVx + 1
                   tooHard == Cardinality({k \in 1..3 :
                                  last3[k].actualVx < last3[k].targetVx - 1}) >= 2
               IN IF allTooEasy THEN "too_easy" ELSE IF tooHard THEN "too_hard" ELSE NULL :
          withVara \in {WithVara(recentSets)}})

\* a break analysis that knows no tier above two weeks
breakWithoutLongTier(lastSessionDateISO, todayDateISO) ==
    IF lastSessionDateISO = NoNum
    THEN [breakDays |-> NoNum, modifier |-> 0, forcedDayType |-> NULL, message |-> NULL]
    ELSE IF todayDateISO - lastSessionDateISO < 7
    THEN [breakDays |-> todayDateISO - lastSessionDateISO, modifier |-> 0,
          forcedDayType |-> NULL, message |-> NULL]
    ELSE IF todayDateISO - lastSessionDateISO < 14
    THEN [breakDays |-> todayDateISO - lastSessionDateISO, modifier |-> -Pct(5, 100),
          forcedDayType |-> NULL, message |-> "Viikon tauko"]
    ELSE [breakDays |-> todayDateISO - lastSessionDateISO, modifier |-> -Pct(10, 100),
          forcedDayType |-> "volume", message |-> "2 viikon tauko"]

\* breakAnalysis(lastSessionDateISO, todayDateISO)
breakAnalysis(lastSessionDateISO, todayDateISO) ==
    IF lastSessionDateISO = NoNum
    THEN [breakDays |-> NoNum, modifier |-> 0, forcedDayType |-> NULL, message |-> NULL]
    ELSE LET breakDays == todayDateISO - lastSessionDateISO
         IN IF breakDays < 7
            THEN [breakDays |-> breakDays, modifier |-> 0, forcedDayType |-> NULL, message |-> NULL]
            ELSE IF breakDays < 14
            THEN [breakDays |-> breakDays, modifier |-> -Pct(5, 100), forcedDayType |-> NULL,
                  message |-> "Viikon tauko"]
            ELSE IF breakDays < 28
            THEN [breakDays |-> breakDays, modifier |-> -Pct(10, 100), forcedDayType |-> "volume",
                  message |-> "2 viikon tauko"]
            ELSE [breakDays |-> breakDays, modifier |-> -Pct(15, 100), forcedDayType |-> "volume",
                  message |-> "Pitka tauko"]

\* mesocycleBreakReset(mesocycle, skippedWeeks).reset
mesocycleBreakReset(skippedWeeks) == skippedWeeks >= 2

\* generateDefaultDayPlan(dayType, weekDef, accessoryCapActive)
generateDefaultDayPlan(dayType, weekDef) ==
    LET fallbackReps == IF dayType = "volume" THEN 5 ELSE IF dayType = "speed" THEN 2 ELSE 3
        fallbackVx == IF dayType = "volume" THEN 3 ELSE IF dayType = "speed" THEN 4 ELSE 2
        primaryReps == IF weekDef # None /\ ~Falsy(weekDef[1].heavyReps)
                       THEN weekDef[1].heavyReps ELSE fallbackReps
        primaryVx == IF weekDef # None /\ ~Falsy(weekDef[1].heavyTargetVx)
                     THEN weekDef[1].heavyTargetVx ELSE fallbackVx
        primarySets == IF dayType = "volume" THEN 5 ELSE IF dayType = "speed" THEN 4 ELSE 3
        accessories ==
            CASE dayType = "heavy" ->
                   <<Slot("accessory", "horisontaalityonto", "Penkkipunnerrus", 4, 6, 3),
                     Slot("accessory", "horisontaaliveto", "Penkkiveto", 3, 8, 3),
                     Slot("accessory", "hauisfleksio", "Hauiskaanto tanko", 3, 10, NoNum)>>
              [] dayType = "volume" ->
                   <<Slot("accessory", "vertikaalityonto", "Pystypunnerrus", 4, 8, 3),
                     Slot("accessory", "vertikaaliveto", "Ylatalja", 3, 10, 3),
                     Slot("accessory", "ojentajaekstensio", "Tricep pushdown", 3, 12, NoNum)>>
              [] dayType = "speed" ->
                   <<Slot("accessory", "horisontaaliveto", "Alatalja", 3, 10, 4),
                     Slot("accessory", "hauisfleksio", "Hammer curl", 2, 10, NoNum)>>
              [] OTHER -> <<>>
    IN [dayOfWeek |-> NoNum, dayType |-> dayType,
        slots |-> <<Primary(primarySets, primaryReps, primaryVx)>> \o accessories]

\* ------------------------------------------------------- adaptive volume
\* ex.sets.filter((s) => s.completed).length
CompletedSets(ex) == Cardinality({k \in 1..Len(ex.sets) : ex.sets[k].completed})

\* ex.originalCategory || ex.category
PlannedCategory(ex) == IF ex.originalCategory = NULL THEN ex.category ELSE ex.originalCategory

\* the adjustment of one exercise against the slot it matches: none, or one
SlotAdjustment(slot, ex) ==
    LET completedSets == CompletedSets(ex)
        plannedSets == slot.sets
        delta == completedSets - plannedSets
    IN IF delta >= 2
       THEN <<[category |-> slot.category, role |-> slot.role, movementName |-> ex.name,
               type |-> "volume_up", delta |-> delta,
               suggestedSets |-> Min2(plannedSets + 1, 6),
               reason |-> <<ex.name, completedSets, plannedSets, "+1 sarja">>]>>
       ELSE IF delta <= 0 - 1 /\ completedSets > 0
       THEN <<[category |-> slot.category, role |-> slot.role, movementName |-> ex.name,
               type |-> "volume_down", delta |-> delta,
               suggestedSets |-> Max2(plannedSets - 1, 2),
               reason |-> <<ex.name, completedSets, plannedSets, "-1 sarja">>]>>
       ELSE <<>>

\* analyzeSessionAdaptation(sessionExercises, dayPlanSlots): slot by slot the
\* adjustments of the exercises that match it, then the exercises outside the plan
analyzeSessionAdaptation(sessionExercises, dayPlanSlots) ==
    LET n == Len(sessionExercises)
        slotOf(k) == dayPlanSlots[((k - 1) \div n) + 1]
        exOf(k) == sessionExercises[((k - 1) % n) + 1]
        adj(k) == IF PlannedCategory(exOf(k)) = slotOf(k).category /\ exOf(k).role = slotOf(k).role
                  THEN SlotAdjustment(slotOf(k), exOf(k)) ELSE <<>>
        hits == SelectSeqIdx([k \in 1..(Len(dayPlanSlots) * n) |-> adj(k) # <<>>])
        plannedCategories == {dayPlanSlots[i].category : i \in 1..Len(dayPlanSlots)}
        extra == SelectSeqIdx([j \in 1..n |->
                     /\ PlannedCategory(sessionExercises[j]) \notin plannedCategories
                     /\ CompletedSets(sessionExercises[j]) > 0])
    IN [q \in 1..Len(hits) |-> adj(hits[q])[1]]
       \o [q \in 1..Len(extra) |->
             [category |-> sessionExercises[extra[q]].category, role |-> "accessory",
              movementName |-> sessionExercises[extra[q]].name, type |-> "new_exercise",
              delta |-> NoNum, suggestedSets |-> CompletedSets(sessionExercises[extra[q]]),
              reason |-> <<sessionExercises[extra[q]].name,
                           CompletedSets(sessionExercises[extra[q]]), NoNum, "lisatty kasin">>]]

\* the key `${adj.category}:${adj.type}`
AdaptationKey(adj) == <<adj.category, adj.type>>

\* the entries of counts in insertion order: the first adjustment of each key
\* with the number of adjustments of that key
AdaptationCounts(adaptationHistory) ==
    LET h == adaptationHistory
        first == SelectSeqIdx([k \in 1..Len(h) |->
                     \A j \in 1..(k - 1) : AdaptationKey(h[j]) # AdaptationKey(h[k])])
    IN [q \in 1..Len(first) |->
          [entry |-> h[first[q]],
           count |-> Cardinality({k \in 1..Len(h) :
                                     AdaptationKey(h[k]) = AdaptationKey(h[first[q]])})]]

\* slot.sets after one entry of counts has been applied to the slot
SetsAfterEntry(sets, slot, c) ==
    IF c.count < 2 THEN sets
    ELSE IF slot.category = c.entry.category /\ slot.role = c.entry.role
    THEN IF c.entry.type = "volume_up" /\ c.entry.suggestedSets > sets THEN c.entry.suggestedSets
         ELSE IF c.entry.type = "volume_down" /\ c.entry.suggestedSets < sets
         THEN c.entry.suggestedSets
         ELSE sets
    ELSE sets

\* slot.sets after the first k entries of counts, for k = 0..Len(counts)
SetsAfter(slot, counts) ==
    LET after[k \in 0..Len(counts)] ==
            IF k = 0 THEN slot.sets ELSE SetsAfterEntry(after[k - 1], slot, counts[k])
    IN after

\* a day and a week plan with every slot.sets as the entries of counts leave it
AdaptedDay(day, counts) ==
    [day EXCEPT !.slots = [s \in 1..Len(day.slots) |->
        [day.slots[s] EXCEPT !.sets = SetsAfter(day.slots[s], counts)[Len(counts)]]]]

AdaptedWeekPlan(wp, counts) ==
    [wp EXCEPT !.days = [d \in 1..Len(wp.days) |-> AdaptedDay(wp.days[d], counts)]]

\* every slot of every day of every week plan, as <<week plan, day, slot>> positions
SlotPositions(mesocycle) ==
    {<<w, d, s>> \in (1..Len(mesocycle.weekPlans)) \X (1..7) \X (1..8) :
        /\ d <= Len(mesocycle.weekPlans[w].days)
        /\ s <= Len(mesocycle.weekPlans[w].days[d].slots)}

\* applyAdaptations(mesocycle, adaptationHistory): what it returns, and the
\* cycle object as the call leaves it (slot.sets is assigned in place)
applyAdaptations(mesocycle, adaptationHistory) ==
    IF Len(adaptationHistory) < 2
    THEN [applied |-> FALSE, changes |-> 0, mesocycle |-> mesocycle]
    ELSE LET counts == AdaptationCounts(adaptationHistory)
             slotAt(p) == mesocycle.weekPlans[p[1]].days[p[2]].slots[p[3]]
             changes == Cardinality({<<p, k>> \in SlotPositions(mesocycle) \X (1..Len(counts)) :
                                        SetsAfter(slotAt(p), counts)[k]
                                        # SetsAfter(slotAt(p), counts)[k - 1]})
                        + Cardinality({k \in 1..Len(counts) :
                                          /\ counts[k].count >= 2
                                          /\ counts[k].entry.type = "new_exercise"})
         IN [applied |-> changes > 0, changes |-> changes,
             mesocycle |-> [mesocycle EXCEPT !.weekPlans =
                              [w \in 1..Len(mesocycle.weekPlans) |->
                                  AdaptedWeekPlan(mesocycle.weekPlans[w], counts)]]]

\* ------------------------------------------------------------------ state
VARIABLES
    today,            \* the clock: todayISO() as a day number
    settings,         \* appMeta store, key "settings"
    mesocycles,       \* mesocycles store: a set of cycles, keyed by mesocycleId
    sessions,         \* sessions store, in key order
    sets,             \* sets store, in key order
    recommendations,  \* recommendations store: a set of records keyed by recId
    decisionTraces,   \* decisionTraces store, in the order the entries were put
    lastRun,          \* None, or Some(the last call of recommend(): options, what it
                      \* read, whether it repeats the call before it as a dry run of
                      \* the same inputs, its local values, the cycles it created,
                      \* its ordered store writes, its result)
    nRuns,            \* calls of recommend() so far; seeds the values uid() returns
    nTicks,           \* clock advances so far
    fusionIn,         \* the classes of the three channels given to combineReadiness
    fusionOut,        \* None, or Some(what combineReadiness returned for them)
    samples,          \* what the caller has measured: today's mean velocity and
                      \* lnRMSSD (or NoNum), their histories, the recent top sets
    channels,         \* None, or Some(what the three channel functions returned)
    loaded,           \* None, or Some(the cycle object the caller holds in memory)
    adaptationHistory, \* the adjustments the caller collected from finished sessions
    movementProgress, \* None, or Some(the progress record of one accessory movement)
    lowerBody,        \* whether that movement is of the lower-body class
    sessionLog,       \* the sessionSets of every updateMovementProgressFromSets call
    suggestion,       \* None, or Some(the last direct accessoryProgression call: the
                      \* record it was given and what it returned)
    stagnation,       \* None, or Some(the last checkStagnation call: the record it
                      \* was given and what it returned)
    nCalls,           \* updateMovementProgressFromSets calls made in this behaviour
    movements,        \* movements store: a set of records keyed by movementId
    variants,         \* variants store: a set of records keyed by variantId
    meta,             \* None, or Some(the record of key "meta" in the appMeta store)
    backup,           \* None, or Some(what the last exportFullBackup returned)
    nSeeds            \* calls of seedPresets that wrote; seeds the values uid() returns

vars == <<today, settings, mesocycles, sessions, sets, recommendations, decisionTraces,
          lastRun, nRuns, nTicks, fusionIn, fusionOut, samples, channels, loaded,
          adaptationHistory, movementProgress, lowerBody, sessionLog, suggestion, stagnation, nCalls,
          movements, variants, meta, backup, nSeeds>>

fusion == <<fusionIn, fusionOut, samples, channels>>

adapt == <<loaded, adaptationHistory>>

library == <<movements, variants, meta, backup, nSeeds>>

tracker == <<movementProgress, lowerBody, sessionLog, suggestion, stagnation, nCalls>>

stores == <<settings, mesocycles, sessions, sets, recommendations, decisionTraces>>

\* uid(): a value no earlier call returned; n is the call of recommend() that
\* asks, kind and k tell its calls apart
uid(n, kind, k) == <<n, kind, k>>
NoId == <<>>

\* ------------------------------------------------- movements and backups
\* PRESET_MOVEMENTS, as <<name, category, isPrimary>>
PRESET_MOVEMENTS ==
    <<<<"Lisapainoleuanveto", "vertikaaliveto", TRUE>>,
      <<"Ylatalja", "vertikaaliveto", FALSE>>,
      <<"Lat pulldown", "vertikaaliveto", FALSE>>,
      <<"Pullover kone", "vertikaaliveto", FALSE>>,
      <<"Penkkiveto", "horisontaaliveto", FALSE>>,
      <<"Alatalja", "horisontaaliveto", FALSE>>,
      <<"Seated row", "horisontaaliveto", FALSE>>,
      <<"Cable row", "horisontaaliveto", FALSE>>,
      <<"T-bar row", "horisontaaliveto", FALSE>>,
      <<"Hauiskaanto tanko", "hauisfleksio", FALSE>>,
      <<"Hauiskaanto kasipainot", "hauisfleksio", FALSE>>,
      <<"Hammer curl", "hauisfleksio", FALSE>>,
      <<"Preacher curl", "hauisfleksio", FALSE>>,
      <<"Pystypunnerrus", "vertikaalityonto", FALSE>>,
      <<"Shoulder press laite", "vertikaalityonto", FALSE>>,
      <<"Penkkipunnerrus", "horisontaalityonto", FALSE>>,
      <<"Chest press", "horisontaalityonto", FALSE>>,
      <<"Pec deck", "horisontaalityonto", FALSE>>,
      <<"Tricep pushdown", "ojentajaekstensio", FALSE>>,
      <<"French press", "ojentajaekstensio", FALSE>>,
      <<"Ab crunch", "core", FALSE>>,
      <<"Cable crunch", "core", FALSE>>>>

\* PRIMARY_VARIANTS, as <<name, isDefault>>
PRIMARY_VARIANTS ==
    <<<<"Kilpaveto (levea myotaote)", TRUE>>, <<"Korokeveto", FALSE>>,
      <<"Nopeusveto kuminauhalla", FALSE>>, <<"Myotaoteveto", FALSE>>>>

PULL_VOLUME_CATEGORIES == {"vertikaaliveto", "horisontaaliveto", "hauisfleksio"}

\* the movement records seedPresets builds, n its call
PresetMovements(n) ==
    {[movementId |-> uid(n, "movement", i), name |-> PRESET_MOVEMENTS[i][1],
      category |-> PRESET_MOVEMENTS[i][2], isPrimary |-> PRESET_MOVEMENTS[i][3],
      countsAsPullVolume |-> PRESET_MOVEMENTS[i][2] \in PULL_VOLUME_CATEGORIES,
      isPreset |-> TRUE, tags |-> <<>>] : i \in 1..Len(PRESET_MOVEMENTS)}

\* the variant records seedPresets builds for the primary movement, the first
\* of the list with isPrimary
PresetVariants(n) ==
    LET primary == {i \in 1..Len(PRESET_MOVEMENTS) : PRESET_MOVEMENTS[i][3]}
    IN IF primary = {} THEN {}
       ELSE {[variantId |-> uid(n, "variant", k),
              movementId |-> uid(n, "movement", CHOOSE i \in primary : \A j \in primary : i <= j),
              name |-> PRIMARY_VARIANTS[k][1], isDefault |-> PRIMARY_VARIANTS[k][2],
              notes |-> ""] : k \in 1..Len(PRIMARY_VARIANTS)}

\* the record of key "meta" seedPresets puts
SeededMeta(nowISO) ==
    [key |-> "meta", appVersion |-> "1.0.0", schemaVersion |-> 3, createdAtISO |-> nowISO,
     lastOpenedISO |-> nowISO, timezone |-> "Europe/Helsinki"]

\* seedPresets(): nothing with a movement in the store; else the preset
\* movements, the variants of the primary one and the record of key "meta"
seedPresets(store, n, nowISO) ==
    IF store.movements # {} THEN [store EXCEPT !.seeded = FALSE]
    ELSE [store EXCEPT !.movements = PresetMovements(n),
                       !.variants = store.variants \cup PresetVariants(n),
                       !.meta = Some(SeededMeta(nowISO)),
                       !.seeded = TRUE]

\* updateLastOpened()
updateLastOpened(appMeta, nowISO) ==
    Some([(IF appMeta # None THEN appMeta[1] ELSE SeededMeta(nowISO)) EXCEPT
             !.lastOpenedISO = nowISO, !.appVersion = "1.0.0"])

\* the contents of the stores, as dbGetAll returns them store by store.  The
\* appMeta store holds the records of keys "meta" and "settings"; no operation
\* modelled writes the measurements, protocols, baselines and movementProgress
\* stores, which stay empty.
StoreContents ==
    [appMeta |-> [meta |-> meta, settings |-> settings], movements |-> movements,
     variants |-> variants, sessions |-> sessions, sets |-> sets, mesocycles |-> mesocycles,
     recommendations |-> recommendations, decisionTraces |-> decisionTraces]

\* the state after initDB() on a new database, on day 0
SeededLibrary ==
    /\ movements = PresetMovements(1)
    /\ variants = PresetVariants(1)
    /\ meta = Some(SeededMeta(0))
    /\ backup = None
    /\ nSeeds = 1

\* ------------------------------------------------ accessory progression
\* Loads of accessory movements are in 1/10 kg, their e1RM in 1/300 kg.
\* roundToHalf(value): Math.round(value * 2) / 2
roundToHalf(value) == 5 * RoundHalfUp(value, 5)

\* e1rmAccessory(weightKg, reps): weightKg * (1 + reps / 30)
e1rmAccessory(weightKg, reps) ==
    IF weightKg <= 0 \/ reps < 1 THEN NoNum ELSE weightKg * (30 + reps)

\* a progression that asks for one session on target only
progressionAfterOne(progress, isLowerBody) ==
    IF progress = None
    THEN [action |-> "hold", suggestedLoad |-> NoNum, stagnationWarning |-> FALSE]
    ELSE IF progress[1].consecutiveTargetMetSessions >= 1
    THEN [action |-> "increase",
          suggestedLoad |-> roundToHalf((IF Falsy(progress[1].lastLoadKg) THEN 0
                                         ELSE progress[1].lastLoadKg)
                                        + (IF isLowerBody THEN 50 ELSE 25)),
          stagnationWarning |-> FALSE]
    ELSE [action |-> "hold", suggestedLoad |-> progress[1].lastLoadKg,
          stagnationWarning |-> progress[1].stagnationWeeks >= 3]

\* accessoryProgression(progress, isLowerBody = false)
accessoryProgression(progress, isLowerBody) ==
    IF progress = None
    THEN [action |-> "hold", suggestedLoad |-> NoNum, stagnationWarning |-> FALSE]
    ELSE LET increment == IF isLowerBody THEN 50 ELSE 25
         IN IF progress[1].consecutiveTargetMetSessions >= 2
            THEN [action |-> "increase",
                  suggestedLoad |-> roundToHalf((IF Falsy(progress[1].lastLoadKg) THEN 0
                                                 ELSE progress[1].lastLoadKg) + increment),
                  stagnationWarning |-> FALSE]
            ELSE IF progress[1].stagnationWeeks >= 3
            THEN [action |-> "hold", suggestedLoad |-> progress[1].lastLoadKg,
                  stagnationWarning |-> TRUE]
            ELSE [action |-> "hold", suggestedLoad |-> progress[1].lastLoadKg,
                  stagnationWarning |-> FALSE]

\* the record a movement gets when it has none
NewProgress(movementId) ==
    [movementId |-> movementId, currentE1RM |-> NoNum, e1rmHistory |-> <<>>,
     lastLoadKg |-> NoNum, lastReps |-> NoNum, suggestedLoadKg |-> NoNum,
     suggestedAction |-> "hold", consecutiveTargetMetSessions |-> 0, stagnationWeeks |-> 0,
     stagnationFlagged |-> FALSE, stagnationNotifiedAt |-> NULL, status |-> "active",
     restingSince |-> NULL]

\* sessionSets.every(...): the reps reach the set's target reps (the call's when
\* the set has none) and the Vx, where the call has a target and the set a
\* value, reaches the call's target
AllTargetMet(sessionSets, targetReps, targetVx) ==
    \A i \in 1..Len(sessionSets) :
        /\ sessionSets[i].reps >= (IF Falsy(sessionSets[i].targetReps) THEN targetReps
                                   ELSE sessionSets[i].targetReps)
        /\ \/ targetVx = NoNum
           \/ sessionSets[i].actualVx = NoNum
           \/ sessionSets[i].actualVx >= targetVx

\* an update of the record that never clears the stagnation flag
countedKeepingFlag(old, lastSet, e1rm, allTargetMet, dateISO) ==
    LET stagnationWeeks ==
            IF old.currentE1RM # NoNum /\ e1rm # NoNum /\ e1rm <= old.currentE1RM
            THEN old.stagnationWeeks + 1
            ELSE IF e1rm # NoNum /\ old.currentE1RM # NoNum /\ e1rm > old.currentE1RM
            THEN 0
            ELSE old.stagnationWeeks
    IN [old EXCEPT
          !.currentE1RM = e1rm,
          !.e1rmHistory = IF e1rm # NoNum
                          THEN Append(old.e1rmHistory, [dateISO |-> dateISO, e1rm |-> e1rm])
                          ELSE old.e1rmHistory,
          !.lastLoadKg = lastSet.externalLoadKg,
          !.lastReps = lastSet.reps,
          !.consecutiveTargetMetSessions =
              IF allTargetMet THEN old.consecutiveTargetMetSessions + 1 ELSE 0,
          !.stagnationWeeks = stagnationWeeks,
          !.stagnationFlagged = IF stagnationWeeks >= 3 THEN TRUE ELSE old.stagnationFlagged]

\* the record after the e1RM, the last set, the counter and the stagnation
\* fields have been updated, before the suggestion is computed
ProgressCounted(old, lastSet, e1rm, allTargetMet, dateISO) ==
    LET stagnationWeeks ==
            IF old.currentE1RM # NoNum /\ e1rm # NoNum /\ e1rm <= old.currentE1RM
            THEN old.stagnationWeeks + 1
            ELSE IF e1rm # NoNum /\ old.currentE1RM # NoNum /\ e1rm > old.currentE1RM
            THEN 0
            ELSE old.stagnationWeeks
        risen == e1rm # NoNum /\ old.currentE1RM # NoNum /\ e1rm > old.currentE1RM
    IN [old EXCEPT
          !.currentE1RM = e1rm,
          !.e1rmHistory = IF e1rm # NoNum
                          THEN Append(old.e1rmHistory, [dateISO |-> dateISO, e1rm |-> e1rm])
                          ELSE old.e1rmHistory,
          !.lastLoadKg = lastSet.externalLoadKg,
          !.lastReps = lastSet.reps,
          !.consecutiveTargetMetSessions =
              IF allTargetMet THEN old.consecutiveTargetMetSessions + 1 ELSE 0,
          !.stagnationWeeks = stagnationWeeks,
          !.stagnationFlagged = IF stagnationWeeks >= 3 THEN TRUE
                                ELSE IF risen THEN FALSE ELSE old.stagnationFlagged]

\* a stagnation report that knows one severity only
stagnationYellowOnly(progress) ==
    IF progress = None THEN [stagnated |-> FALSE, severity |-> NULL, message |-> <<>>]
    ELSE IF progress[1].stagnationWeeks < 3
    THEN [stagnated |-> FALSE, severity |-> NULL, message |-> <<>>]
    ELSE [stagnated |-> TRUE, severity |-> "yellow",
          message |-> <<progress[1].stagnationWeeks, "harkitse liikkeen vaihtoa">>]

\* checkStagnation(progress)
checkStagnation(progress) ==
    IF progress = None THEN [stagnated |-> FALSE, severity |-> NULL, message |-> <<>>]
    ELSE IF progress[1].stagnationWeeks < 3
    THEN [stagnated |-> FALSE, severity |-> NULL, message |-> <<>>]
    ELSE IF progress[1].stagnationWeeks >= 6
    THEN [stagnated |-> TRUE, severity |-> "orange",
          message |-> <<progress[1].stagnationWeeks, "suosittelemme liikkeen vaihtoa">>]
    ELSE [stagnated |-> TRUE, severity |-> "yellow",
          message |-> <<progress[1].stagnationWeeks, "harkitse liikkeen vaihtoa">>]

\* updateMovementProgressFromSets(existingProgress, sessionSets, targetReps,
\* targetVx); todayISO() is the clock
updateMovementProgressFromSets(existingProgress, sessionSets, targetReps, targetVx) ==
    IF Len(sessionSets) = 0 THEN existingProgress
    ELSE LET lastSet == sessionSets[Len(sessionSets)]
             counted == ProgressCounted(
                            IF existingProgress # None THEN existingProgress[1]
                            ELSE NewProgress(lastSet.movementId),
                            lastSet, e1rmAccessory(lastSet.externalLoadKg, lastSet.reps),
                            AllTargetMet(sessionSets, targetReps, targetVx), today)
             prog == accessoryProgression(Some(counted), FALSE)
         IN Some([counted EXCEPT !.suggestedLoadKg = prog.suggestedLoad,
                                 !.suggestedAction = prog.action])

\* ------------------------------------------------------------ data access
\* getAllSessions(): the store sorted by dateISO
getAllSessions(store) == SortBy(store, [i \in 1..Len(store) |-> store[i].dateISO])

\* getActiveMesocycle(): the cycles sorted by startDateISO, latest first, and the
\* first of them.  Cycles of equal start date keep the store's key order, the
\* order of their random identifiers, so any of them can come first.
getActiveMesocycle(store) ==
    IF store = {} THEN {None}
    ELSE {Some(m) : m \in {c \in store : \A d \in store : d.startDateISO <= c.startDateISO}}

\* dbPut of each of `cycles` on the mesocycles store: a cycle replaces the one of its key
dbPutMesocycles(store, cycles) ==
    {c \in store : \A m \in cycles : m.mesocycleId # c.mesocycleId} \cup cycles
\* dbPut on the recommendations store
dbPutRecommendation(store, rec) == {r \in store : r.recId # rec.recId} \cup {rec}

\* one store write of a run, in the log of the run: the store, the key written
\* and the step of recommend() that wrote it
Write(store, key, step) == [store |-> store, key |-> key, step |-> step]

\* ---------------------------------------------------- recommend(): steps
Empty == [none |-> TRUE]

\* trace(ruleId, before, after, why), before traceId and recId are set
Trace(ruleId, before, after, why) ==
    [ruleId |-> ruleId, before |-> before, after |-> after, why |-> why]

\* a save of the cycle that does not look at the dry-run flag
SaveCycleUnguarded(dryRun, id) == <<Write("mesocycles", id, "break_reset")>>

\* "if (!options.dryRun) await saveMesocycle(mesocycle)" of step 1, step 2 and
\* the break reset of step 3
SaveCreatedCycle(dryRun, id) ==
    IF ~dryRun THEN <<Write("mesocycles", id, "get_mesocycle")>> ELSE <<>>
SaveNewCycle(dryRun, id) ==
    IF ~dryRun THEN <<Write("mesocycles", id, "new_cycle")>> ELSE <<>>
SaveResetCycle(dryRun, id) ==
    IF ~dryRun THEN <<Write("mesocycles", id, "break_reset")>> ELSE <<>>

\* 1. Get mesocycle: the active cycle, or a new one when there is none
GetMesocycleStep(active, dateISO, dryRun, n) ==
    IF active # None
    THEN [mesocycle |-> active[1], created |-> FALSE, cycles |-> <<>>, writes |-> <<>>,
          traces |-> <<>>]
    ELSE [mesocycle |-> createDefaultMesocycle(dateISO, uid(n, "meso", 1)),
          created |-> TRUE,
          cycles |-> <<createDefaultMesocycle(dateISO, uid(n, "meso", 1))>>,
          writes |-> SaveCreatedCycle(dryRun, uid(n, "meso", 1)),
          traces |-> <<Trace("MESOCYCLE_CREATED", Empty, [mesocycleId |-> uid(n, "meso", 1)],
                             <<"Uusi mesosykli luotu automaattisesti">>)>>]

\* 2. Determine week: a cycle whose week is null is replaced by a new one
WeekStep(mesocycle, dateISO, dryRun, n) ==
    IF getMesocycleWeek(mesocycle, dateISO) # NoNum
    THEN [mesocycle |-> mesocycle, weekNum |-> getMesocycleWeek(mesocycle, dateISO),
          expired |-> FALSE, cycles |-> <<>>, writes |-> <<>>, traces |-> <<>>]
    ELSE [mesocycle |-> createDefaultMesocycle(dateISO, uid(n, "meso", 2)),
          weekNum |-> 1, expired |-> TRUE,
          cycles |-> <<createDefaultMesocycle(dateISO, uid(n, "meso", 2))>>,
          writes |-> SaveNewCycle(dryRun, uid(n, "meso", 2)),
          traces |-> <<Trace("MESOCYCLE_NEW_CYCLE", Empty, [weekNum |-> 1],
                             <<"Edellinen mesosykli paattyi: uusi aloitettu">>)>>]

\* 2. Determine day: the week definition, the planned day and its day type
DayStep(mesocycle, weekNum, dateISO) ==
    Only({[weekDef |-> weekDef, dayPlan |-> dayPlan,
           dayType |-> IF dayPlan # None THEN dayPlan[1].dayType ELSE "heavy",
           label |-> IF weekDef # None THEN weekDef[1].label ELSE "?"] :
          weekDef \in {getWeekDef(mesocycle, weekNum)},
          dayPlan \in {getTodayPlan(mesocycle, weekNum, DayOfWeek(dateISO))}})

PhaseTrace(weekNum, day) ==
    <<Trace("MESOCYCLE_PHASE", Empty,
            [weekNum |-> weekNum, dayType |-> day.dayType, label |-> day.label],
            <<"Viikko", weekNum, day.label>>)>>

\* the dateISO of the last of the sessions sorted by date, NoNum when there is none
LastSessionDate(store) ==
    IF Len(store) = 0 THEN NoNum
    ELSE Only({all[Len(all)].dateISO : all \in {getAllSessions(store)}})

\* 3. Break analysis: the forced day type and the cycle reset
BreakStep(breakInfo, mesocycle, weekNum, dayType, dateISO, dryRun, n) ==
    LET onBreak == breakInfo.modifier # 0
        forced == onBreak /\ breakInfo.forcedDayType # NULL
        reset == /\ onBreak
                 /\ breakInfo.breakDays >= 14
                 /\ mesocycleBreakReset(breakInfo.breakDays \div 7)
    IN [dayType |-> IF forced THEN breakInfo.forcedDayType ELSE dayType,
        reset |-> reset,
        mesocycleId |-> IF reset THEN uid(n, "meso", 3) ELSE mesocycle.mesocycleId,
        weekNum |-> IF reset THEN 1 ELSE weekNum,
        cycles |-> IF reset THEN <<createDefaultMesocycle(dateISO, uid(n, "meso", 3))>> ELSE <<>>,
        writes |-> IF reset THEN SaveResetCycle(dryRun, uid(n, "meso", 3)) ELSE <<>>,
        traces |->
            (IF forced
             THEN <<Trace("RETURN_FROM_BREAK_DAYTYPE", [dayType |-> dayType],
                          [dayType |-> breakInfo.forcedDayType], <<breakInfo.message>>)>>
             ELSE <<>>)
            \o (IF onBreak
                THEN <<Trace("RETURN_FROM_BREAK", [modifier |-> 0],
                             [modifier |-> breakInfo.modifier, breakDays |-> breakInfo.breakDays],
                             <<breakInfo.message>>)>>
                ELSE <<>>)
            \o (IF reset
                THEN <<Trace("MESOCYCLE_BREAK_RESET", Empty, [weekNum |-> 1],
                             <<"2+ viikkoa skipattiin: mesosykli nollattu viikkoon 1">>)>>
                ELSE <<>>)]

\* 4. the top and readiness-test sets, sorted by timestamp
TopSets(allSets) ==
    Only({SortBy(top, [i \in 1..Len(top) |-> top[i].timestamp]) :
          top \in {Only({[i \in 1..Len(idx) |-> allSets[idx[i]]] :
                         idx \in {SelectSeqIdx([i \in 1..Len(allSets) |->
                                     allSets[i].setRole \in {"top", "readiness_test"}])}})}})

\* the system e1RM a set gives, NoNum when it gives none
SetE1RM(s, bodyweightKg) ==
    e1rmSystem(bodyweightKg,
               IF Falsy(s.externalLoadKg) THEN 0 ELSE s.externalLoadKg,
               IF ~Falsy(s.reps) THEN s.reps ELSE IF ~Falsy(s.targetReps) THEN s.targetReps ELSE 3,
               IF s.actualVx # NoNum THEN s.actualVx
               ELSE IF s.targetVx # NoNum THEN s.targetVx ELSE 2)

\* 4. the median system e1RM of the recent top sets, NoNum when no set gives one
CurrentE1RMSystem(recentTopSets, bodyweightKg) ==
    Only({IF Len(e1rmValues) > 0 THEN median(e1rmValues) ELSE NoNum :
          e1rmValues \in
            {Only({[i \in 1..Len(idx) |-> all[idx[i]]] :
                   idx \in {SelectSeqIdx([i \in 1..Len(all) |-> all[i] # NoNum])}}) :
             all \in {[i \in 1..Len(recentTopSets) |-> SetE1RM(recentTopSets[i], bodyweightKg)]}}})

E1rmTrace(currentE1RMSystem, bodyweightKg, fromSets) ==
    <<Trace("E1RM_COMPUTED", Empty,
            [e1rmSystem |-> IF currentE1RMSystem = NoNum THEN NoNum
                            ELSE ToFixed(currentE1RMSystem, 6),
             e1rmExternal |-> IF currentE1RMSystem = NoNum THEN NoNum
                              ELSE ToFixed(Max2(0, currentE1RMSystem - 60 * bodyweightKg), 6),
             fromSets |-> fromSets],
            <<"e1RM laskettu top-seteista", fromSets>>)>>

\* 6. deltaPct calculation: week coefficient times day-type multiplier
DeltaPctRawValue(weekDef, dayType) ==
    ((IF weekDef = None THEN 0 ELSE weekDef[1].deltaPctBase) * DAY_TYPE_MULTIPLIERS(dayType)) \div 10

\* 6.-8. the raw adjustment with the trend correction and the break modifier added
DeltaStep(weekDef, dayType, varaCorr, modifier) ==
    Only({[phaseTerm |-> raw0, varaCorr |-> varaCorr, modifier |-> modifier,
           deltaPctRawValue |-> raw0 + varaCorr + modifier,
           traces |->
               <<Trace("DELTA_PCT_RAW", Empty, [deltaPctRaw |-> raw0],
                       <<"deltaPct_raw", IF weekDef = None THEN 0 ELSE weekDef[1].deltaPctBase,
                         DAY_TYPE_MULTIPLIERS(dayType)>>)>>
               \o (IF varaCorr # 0
                   THEN <<Trace("VARA_TREND_CORRECTION", [deltaPct |-> raw0],
                                [deltaPct |-> raw0 + varaCorr],
                                <<"Vara-trendikorjaus", ToFixed(varaCorr * 10000, Scale)>>)>>
                   ELSE <<>>)
               \o (IF modifier # 0
                   THEN <<Trace("BREAK_MODIFIER", [deltaPct |-> raw0 + varaCorr],
                                [deltaPct |-> raw0 + varaCorr + modifier],
                                <<"Tauko-modifikaattori", (modifier * 100) \div Scale>>)>>
                   ELSE <<>>)] :
          raw0 \in {DeltaPctRawValue(weekDef, dayType)}})

\* settings.maxDelta || 0.25
MaxDelta(maxDeltaSetting) == IF Falsy(maxDeltaSetting) THEN Pct(25, 100) ELSE maxDeltaSetting

\* a clamp that bounds the adjustment from above only
ClampUpperOnly(deltaPctRawValue, maxDelta) == Min2(deltaPctRawValue, maxDelta)

\* 9. Clamp
ClampDelta(deltaPctRawValue, maxDelta) == clamp(deltaPctRawValue, -maxDelta, maxDelta)

\* a cap that treats YELLOW as RED
CapYellowAsRed(deltaPct, capLevel) == IF capLevel >= 1 THEN Min2(deltaPct, 0) ELSE deltaPct

\* 10. Apply readiness cap: the adjustment (the adjustments of the engine are
\* even numbers of units, so that the half is exact)
CapDelta(deltaPct, capLevel) ==
    IF capLevel = 2 THEN Min2(deltaPct, 0)
    ELSE IF capLevel = 1 THEN deltaPct \div 2
    ELSE deltaPct

\* 10. Apply readiness cap: the day type
CapDayType(dayType, capLevel) ==
    IF capLevel = 2 /\ dayType = "heavy" THEN "volume" ELSE dayType

ApplyReadinessCap(deltaPct, dayType, capLevel) ==
    [deltaPct |-> CapDelta(deltaPct, capLevel), dayType |-> CapDayType(dayType, capLevel)]

\* 10. the trace entries of the cap
CapTraces(before, dayTypeBefore, after, capLevel) ==
    IF capLevel = 2
    THEN (IF dayTypeBefore = "heavy"
          THEN <<Trace("CAP_RED_DAYTYPE", [dayType |-> dayTypeBefore], [dayType |-> "volume"],
                       <<"RED readiness: heavy vaihdettu volume:ksi">>)>>
          ELSE <<>>)
         \o <<Trace("CAP_RED", [deltaPct |-> before], [deltaPct |-> after],
                    <<"RED readiness: deltaPct capped to <= 0">>)>>
    ELSE IF capLevel = 1
    THEN <<Trace("CAP_YELLOW", [deltaPct |-> before], [deltaPct |-> after],
                 <<"YELLOW readiness: deltaPct puolitettu">>)>>
    ELSE <<>>

\* 11. target reps and target Vx of the day type
Targets(weekDef, dayType) ==
    IF weekDef # None
    THEN [targetReps |-> IF dayType = "heavy" THEN weekDef[1].heavyReps
                         ELSE IF dayType = "volume" THEN 5 ELSE 2,
          targetVx |-> IF dayType = "heavy" THEN weekDef[1].heavyTargetVx
                       ELSE IF dayType = "volume" THEN 3 ELSE 4]
    ELSE [targetReps |-> 3, targetVx |-> 2]

\* a target load of zero where there is no e1RM
TargetZeroWithoutE1RM(currentE1RMSystem, targetReps, targetVx, deltaPct, bodyweightKg) ==
    IF currentE1RMSystem = NoNum THEN 0
    ELSE IF currentE1RMSystem * (Scale + deltaPct)
            <= 2 * bodyweightKg * (30 + targetReps + targetVx) * Scale THEN 0
    ELSE RoundHalfUp(currentE1RMSystem * (Scale + deltaPct)
                     - 2 * bodyweightKg * (30 + targetReps + targetVx) * Scale,
                     (30 + targetReps + targetVx) * Scale)

\* 11. the target external load in half kg, NoNum without an e1RM:
\* roundToHalf(max(0, e1RM / (1 + effectiveReps / 30) * (1 + deltaPct) - bodyweight))
TargetExternalLoad(currentE1RMSystem, targetReps, targetVx, deltaPct, bodyweightKg) ==
    IF currentE1RMSystem = NoNum THEN NoNum
    ELSE LET den == (30 + targetReps + targetVx) * Scale
             num == currentE1RMSystem * (Scale + deltaPct) - 2 * bodyweightKg * den
         IN IF num <= 0 THEN 0 ELSE RoundHalfUp(num, den)

TargetTrace(targetExternalLoad, deltaPct, targets) ==
    <<Trace("TARGET_LOAD", Empty,
            [targetExternalLoad |-> targetExternalLoad,
             deltaPct |-> ToFixed(deltaPct * 10000, Scale),
             targetReps |-> targets.targetReps, targetVx |-> targets.targetVx],
            <<"Ehdotettu kuorma", targetExternalLoad>>)>>

\* 12. the set count of the day type
SetCount(dayType) ==
    IF DAY_TYPE_SET_RECIPES(dayType) # NoNum THEN DAY_TYPE_SET_RECIPES(dayType) ELSE 3

FeedbackTrace(varaFB) ==
    IF varaFB # NULL THEN <<Trace("VARA_FEEDBACK", Empty, [type |-> varaFB], <<varaFB>>)>>
    ELSE <<>>

\* an accessory cap that does not look at the combined class
CapOnAnyLevel(capLevel, readiness) ==
    \A c \in {readiness.channels.velocity, readiness.channels.hrv, readiness.channels.vara} :
        c.class \in {"RED", "YELLOW"}

\* 14. the accessory cap is active at capLevel 2 when every channel that has a
\* class is RED or YELLOW
AccessoryCapActive(capLevel, readiness) ==
    /\ capLevel = 2
    /\ \A c \in {readiness.channels.velocity, readiness.channels.hrv, readiness.channels.vara} :
           c.class # NULL => c.class \in {"RED", "YELLOW"}

AccessoryTrace(accessoryCapActive) ==
    IF accessoryCapActive
    THEN <<Trace("ACCESSORY_CAP_ACTIVE", Empty, [volumeReduction |-> 30],
                 <<"3/3 kanavaa RED/YELLOW: tukiliikkeet -30% volyymi">>)>>
    ELSE <<>>

\* an accessory cap that cuts the sets of every slot
CapEverySlot(s) == [s EXCEPT !.sets = Max2(2, RoundHalfUp(7 * s.sets, 10))]

\* the accessory cap on a slot: accessory sets become max(2, round(0.7 * sets))
CapSlot(s) ==
    IF s.role = "accessory" THEN [s EXCEPT !.sets = Max2(2, RoundHalfUp(7 * s.sets, 10))] ELSE s

\* 15. the day plan: a generated one when the planned day is missing or has no
\* slots, then the accessory cap
DayPlanStep(planned, dayType, weekDef, accessoryCapActive) ==
    Only({[dayPlan |-> IF accessoryCapActive
                       THEN [plan EXCEPT !.slots = [i \in 1..Len(plan.slots) |-> CapSlot(plan.slots[i])]]
                       ELSE plan,
           traces |-> IF planned = None \/ Len(planned[1].slots) = 0
                      THEN <<Trace("DAY_PLAN_GENERATED", Empty,
                                   [dayType |-> dayType, slotsCount |-> Len(plan.slots)],
                                   <<"Paivan ohjelma generoitu oletusliikkeilla">>)>>
                      ELSE <<>>] :
          plan \in {IF planned = None \/ Len(planned[1].slots) = 0
                    THEN generateDefaultDayPlan(dayType, weekDef) ELSE planned[1]}})

\* the entries left as trace() made them, their recId null
LeaveRecIdNull(traces, recId, n) ==
    [i \in 1..Len(traces) |->
        [traceId |-> uid(n, "trace", i), recId |-> NoId, ruleId |-> traces[i].ruleId,
         before |-> traces[i].before, after |-> traces[i].after, why |-> traces[i].why]]

\* the entries with the number of the run in their rationale
StampRationale(traces, recId, n) ==
    [i \in 1..Len(traces) |->
        [traceId |-> uid(n, "trace", i), recId |-> recId, ruleId |-> traces[i].ruleId,
         before |-> traces[i].before, after |-> traces[i].after, why |-> <<"run", n>>]]

\* "for (const t of traces) t.recId = rec.recId", with the traceId of each entry
AssignRecId(traces, recId, n) ==
    [i \in 1..Len(traces) |->
        [traceId |-> uid(n, "trace", i), recId |-> recId, ruleId |-> traces[i].ruleId,
         before |-> traces[i].before, after |-> traces[i].after, why |-> traces[i].why]]

\* the final persistence: the prescription record, then every trace entry in order
SaveWrites(dryRun, recId, traces) ==
    IF ~dryRun
    THEN <<Write("recommendations", recId, "save")>>
         \o [i \in 1..Len(traces) |-> Write("decisionTraces", traces[i].traceId, "save")]
    ELSE <<>>

\* getSettings(): the stored settings, or the defaults
getSettings(store) ==
    IF store # None THEN store[1] ELSE [bodyweightKg |-> 91, maxDelta |-> Pct(25, 100)]

\* the cycles among `cycles` that a write of the log put, as a set
CyclesWritten(cycles, writes) ==
    {cycles[i] : i \in {j \in 1..Len(cycles) :
        \E k \in 1..Len(writes) : writes[k].store = "mesocycles"
                                  /\ writes[k].key = cycles[j].mesocycleId}}

\* the trace entries that the log put, in the order of the log
TracesWritten(traces, writes) ==
    Only({[i \in 1..Len(idx) |-> Only({tr \in {traces[j] : j \in 1..Len(traces)} :
                                           tr.traceId = writes[idx[i]].key})] :
          idx \in {SelectSeqIdx([k \in 1..Len(writes) |-> writes[k].store = "decisionTraces"])}})

\* the record saveRecommendation() is given
SavedRecommendation(rec) ==
    [recId |-> rec.recId, targetSetRole |-> "top", targetLoadKg |-> rec.targetExternalLoad,
     deltaPct |-> rec.deltaPct, capLevel |-> rec.capLevel, mesocycleWeek |-> rec.weekNum,
     dayType |-> rec.dayType, targetReps |-> rec.targetReps, targetVx |-> rec.targetVx,
     createdAtISO |-> rec.dateISO]

\* ----------------------------------------------------------------- inputs
SetRec(setRole, timestamp, externalLoadKg, reps, actualVx, targetVx) ==
    [setRole |-> setRole, timestamp |-> timestamp, externalLoadKg |-> externalLoadKg,
     reps |-> reps, targetReps |-> 3, actualVx |-> actualVx, targetVx |-> targetVx]

\* the sets logged with a session of day d: a warm-up and top sets stored out of
\* timestamp order, done with one repetition less in reserve than planned; or
\* top sets done with two more in reserve than planned, one without a record
SetHistories(d) ==
    {<<SetRec("warmup", 10 * d + 1, 0, 5, NoNum, NoNum),
       SetRec("top", 10 * d + 3, 25, 3, 1, 2),
       SetRec("top", 10 * d + 2, 20, 3, 1, 2),
       SetRec("readiness_test", 10 * d + 4, 10, 3, 1, 2),
       SetRec("top", 10 * d + 5, 30, 3, 1, 2)>>,
     <<SetRec("top", 10 * d + 1, 30, 3, 4, 2),
       SetRec("top", 10 * d + 2, 32, 3, 4, 2),
       SetRec("top", 10 * d + 3, 34, 2, NoNum, 2),
       SetRec("top", 10 * d + 4, 30, 3, 4, 2),
       SetRec("top", 10 * d + 5, 28, 3, 4, 2)>>,
     <<SetRec("warmup", 10 * d + 1, 0, 5, NoNum, NoNum),
       SetRec("backoff", 10 * d + 2, 15, 5, 3, 3)>>}

\* longer sessions of day d: seven top sets done with two less in reserve than
\* planned, of which the second to the fourth have no record of it; and seven
\* top sets that all have one
LongSetHistories(d) ==
    {<<SetRec("top", 10 * d + 1, 20, 3, 0, 2),
       SetRec("top", 10 * d + 2, 22, 3, NoNum, 2),
       SetRec("top", 10 * d + 3, 24, 3, NoNum, 2),
       SetRec("top", 10 * d + 4, 26, 3, NoNum, 2),
       SetRec("top", 10 * d + 5, 24, 3, 0, 2),
       SetRec("top", 10 * d + 6, 22, 3, 0, 2),
       SetRec("top", 10 * d + 7, 20, 3, 0, 2)>>,
     <<SetRec("top", 10 * d + 1, 20, 3, 2, 2),
       SetRec("top", 10 * d + 2, 22, 3, 2, 2),
       SetRec("top", 10 * d + 3, 24, 3, 1, 2),
       SetRec("top", 10 * d + 4, 26, 3, 2, 2),
       SetRec("top", 10 * d + 5, 24, 3, 2, 2),
       SetRec("top", 10 * d + 6, 22, 3, 2, 2),
       SetRec("top", 10 * d + 7, 20, 3, 3, 2)>>}

\* the maxDelta a user saves in place of the default
MaxDeltaChoices == {Pct(2, 100)}

\* days the clock advances by
DaySteps == {4, 7, 14}

\* the classes of the velocity, HRV and Vara channels a run is given
ChannelClasses == Classes \cup {NULL}
ReadinessInputs ==
    {<<NULL, NULL, NULL>>, <<"GREEN", "GREEN", "YELLOW">>, <<"YELLOW", "YELLOW", "YELLOW">>,
     <<"RED", "RED", "GREEN">>, <<"RED", "YELLOW", "RED">>, <<"YELLOW", "RED", NULL>>}

\* ---------------------------------------------------------------- actions
\* nothing measured
NoSamples ==
    [todayVelocity |-> NoNum, velocityBaseline |-> <<>>, todayLnRMSSD |-> NoNum,
     hrvBaseline |-> <<>>, recentTopSets |-> <<>>]

Init ==
    /\ today = 0
    /\ settings = None
    /\ mesocycles = {}
    /\ sessions = <<>>
    /\ sets = <<>>
    /\ recommendations = {}
    /\ decisionTraces = <<>>
    /\ lastRun = None
    /\ nRuns = 0
    /\ nTicks = 0
    /\ fusionIn = <<NULL, NULL, NULL>>
    /\ fusionOut = None
    /\ samples = NoSamples
    /\ channels = None
    /\ loaded = None
    /\ adaptationHistory = <<>>
    /\ movementProgress = None
    /\ lowerBody = FALSE
    /\ sessionLog = <<>>
    /\ suggestion = None
    /\ stagnation = None
    /\ nCalls = 0
    /\ SeededLibrary

\* the date changes
Tick ==
    /\ nTicks < MaxTicks
    /\ \E d \in DaySteps : today' = today + d
    /\ nTicks' = nTicks + 1
    /\ UNCHANGED <<library, stores, lastRun, nRuns, fusion, adapt, tracker>>

\* saveSettings(settings)
saveSettings ==
    /\ settings = None
    /\ \E m \in MaxDeltaChoices : settings' = Some([bodyweightKg |-> 91, maxDelta |-> m])
    /\ UNCHANGED <<library, today, mesocycles, sessions, sets, recommendations, decisionTraces,
                   lastRun, nRuns, nTicks, fusion, adapt, tracker>>

\* saveSession(session) and saveSets(sets) of a session logged today
saveSession ==
    /\ Len(sessions) < MaxSessions
    /\ \E p \in 0..Len(sessions) :
         sessions' = SubSeq(sessions, 1, p) \o <<[dateISO |-> today]>>
                     \o SubSeq(sessions, p + 1, Len(sessions))
    /\ \E h \in SetHistories(today) : sets' = sets \o h
    /\ UNCHANGED <<library, today, settings, mesocycles, recommendations, decisionTraces,
                   lastRun, nRuns, nTicks, fusion, adapt, tracker>>

\* options.mesocycle: absent, or the cycle object the caller holds
OptionsMesocycle == {None} \cup {loaded}

\* recommend(options) with options.dryRun, options.readiness and
\* options.mesocycle; every other input is read from the stores and the clock
recommend ==
    /\ nRuns < MaxRuns
    /\ \E dryRun \in BOOLEAN, classes \in ReadinessInputs, given \in OptionsMesocycle :
       \E active \in (IF given # None THEN {given} ELSE getActiveMesocycle(mesocycles)) :
       \E n \in {nRuns + 1}, s \in {getSettings(settings)}, dateISO \in {today} :
       \E readiness \in {combineReadiness(Channel("velocity", classes[1]),
                                          Channel("hrv", classes[2]),
                                          Channel("vara", classes[3]))} :
       \E g \in {GetMesocycleStep(active, dateISO, dryRun, n)} :
       \E w \in {WeekStep(g.mesocycle, dateISO, dryRun, n)} :
       \E day \in {DayStep(w.mesocycle, w.weekNum, dateISO)} :
       \E breakInfo \in {breakAnalysis(LastSessionDate(sessions), dateISO)} :
       \E b \in {BreakStep(breakInfo, w.mesocycle, w.weekNum, day.dayType, dateISO, dryRun, n)} :
       \E recentTopSets \in {SliceLast(TopSets(sets), 6)} :
       \E currentE1RMSystem \in {CurrentE1RMSystem(recentTopSets, s.bodyweightKg)} :
       \E d \in {DeltaStep(day.weekDef, b.dayType, varaTrendCorrection(recentTopSets),
                           breakInfo.modifier)} :
       \E maxDelta \in {MaxDelta(s.maxDelta)} :
       \E clamped \in {ClampDelta(d.deltaPctRawValue, maxDelta)} :
       \E capped \in {ApplyReadinessCap(clamped, b.dayType, readiness.capLevel)} :
       \E targets \in {Targets(day.weekDef, capped.dayType)} :
       \E targetExternalLoad \in {TargetExternalLoad(currentE1RMSystem, targets.targetReps,
                                     targets.targetVx, capped.deltaPct, s.bodyweightKg)} :
       \E varaFB \in {varaFeedback(recentTopSets)} :
       \E accessoryCapActive \in {AccessoryCapActive(readiness.capLevel, readiness)} :
       \E plan \in {DayPlanStep(day.dayPlan, capped.dayType, day.weekDef, accessoryCapActive)} :
       \E recId \in {uid(n, "rec", 1)} :
       \E traces \in {AssignRecId(
                        g.traces \o w.traces \o PhaseTrace(w.weekNum, day) \o b.traces
                        \o E1rmTrace(currentE1RMSystem, s.bodyweightKg, Len(recentTopSets))
                        \o d.traces
                        \o CapTraces(clamped, b.dayType, capped.deltaPct, readiness.capLevel)
                        \o TargetTrace(targetExternalLoad, capped.deltaPct, targets)
                        \o FeedbackTrace(varaFB) \o AccessoryTrace(accessoryCapActive)
                        \o plan.traces, recId, n)} :
       \E rec \in {[recId |-> recId, dateISO |-> dateISO, mesocycleId |-> b.mesocycleId,
                    weekNum |-> b.weekNum, weekLabel |-> day.label, dayType |-> capped.dayType,
                    targetExternalLoad |-> targetExternalLoad,
                    targetReps |-> targets.targetReps, targetVx |-> targets.targetVx,
                    setCount |-> SetCount(capped.dayType), deltaPct |-> capped.deltaPct,
                    capLevel |-> readiness.capLevel, readiness |-> readiness,
                    e1rmSystem |-> currentE1RMSystem, bodyweightKg |-> s.bodyweightKg,
                    varaFeedback |-> varaFB,
                    breakInfo |-> IF breakInfo.breakDays >= 7 THEN Some(breakInfo) ELSE None,
                    accessoryCapActive |-> accessoryCapActive, dayPlan |-> plan.dayPlan,
                    traces |-> traces]} :
       \E writes \in {g.writes \o w.writes \o b.writes \o SaveWrites(dryRun, recId, traces)} :
          /\ mesocycles' = dbPutMesocycles(mesocycles,
                               CyclesWritten(g.cycles \o w.cycles \o b.cycles, writes))
          /\ recommendations' =
                 IF \E k \in 1..Len(writes) : writes[k].store = "recommendations"
                 THEN dbPutRecommendation(recommendations, SavedRecommendation(rec))
                 ELSE recommendations
          /\ decisionTraces' = decisionTraces \o TracesWritten(traces, writes)
          /\ lastRun' = Some([dryRun |-> dryRun, classes |-> classes,
                              given |-> given,
                              reads |-> <<today, settings, mesocycles, sessions, sets>>,
                              repeats |-> /\ lastRun # None
                                          /\ lastRun[1].dryRun /\ dryRun
                                          /\ lastRun[1].classes = classes
                                          /\ lastRun[1].given = given
                                          /\ lastRun[1].reads
                                             = <<today, settings, mesocycles, sessions, sets>>,
                              created |-> g.created, expired |-> w.expired, reset |-> b.reset,
                              weekOfCycle |-> w.weekNum, breakDays |-> breakInfo.breakDays,
                              dayTypePlanned |-> day.dayType, dayTypeBeforeCap |-> b.dayType,
                              planned |-> day.dayPlan, planCycle |-> w.mesocycle,
                              phaseTerm |-> d.phaseTerm, varaCorr |-> d.varaCorr,
                              breakModifier |-> d.modifier,
                              deltaPctRawValue |-> d.deltaPctRawValue,
                              clamped |-> clamped, maxDelta |-> maxDelta,
                              cycles |-> g.cycles \o w.cycles \o b.cycles,
                              writes |-> writes, rec |-> rec])
    /\ nRuns' = nRuns + 1
    /\ UNCHANGED <<library, today, settings, sessions, sets, nTicks, fusion, adapt, tracker>>

Next == Tick \/ saveSettings \/ saveSession \/ recommend

Spec == Init /\ [][Next]_vars

\* ------------------------------------------- combineReadiness on its own
\* every combination of the three channels, each inactive, GREEN, YELLOW or RED
InitFusion ==
    /\ today = 0
    /\ settings = None
    /\ mesocycles = {}
    /\ sessions = <<>>
    /\ sets = <<>>
    /\ recommendations = {}
    /\ decisionTraces = <<>>
    /\ lastRun = None
    /\ nRuns = 0
    /\ nTicks = 0
    /\ fusionIn \in ChannelClasses \X ChannelClasses \X ChannelClasses
    /\ fusionOut = None
    /\ samples = NoSamples
    /\ channels = None
    /\ loaded = None
    /\ adaptationHistory = <<>>
    /\ movementProgress = None
    /\ lowerBody = FALSE
    /\ sessionLog = <<>>
    /\ suggestion = None
    /\ stagnation = None
    /\ nCalls = 0
    /\ SeededLibrary

Combine ==
    /\ fusionOut = None
    /\ fusionOut' = Some(combineReadiness(Channel("velocity", fusionIn[1]),
                                          Channel("hrv", fusionIn[2]),
                                          Channel("vara", fusionIn[3])))
    /\ UNCHANGED <<library, today, stores, lastRun, nRuns, nTicks, fusionIn, samples, channels, adapt,
                   tracker>>

NextFusion == Combine

SpecFusion == InitFusion /\ [][NextFusion]_vars

\* ------------------------------------------- the readiness channels alone
\* velocity histories (hundredths of m/s): none, two values, three values of
\* no spread, three values with spread, twelve values of which the window of
\* ten drops the first two
VelocityHistories ==
    {<<>>, <<100, 96>>, <<100, 100, 100>>, <<92, 100, 108>>,
     <<40, 40, 100, 96, 104, 100, 92, 100, 108, 100, 96, 100>>}

VelocitySamples == {NoNum, 100, 96, 92, 88}

\* lnRMSSD histories (hundredths): two values, three, sixteen of which the
\* window of fourteen drops the first two
HrvHistories ==
    {<<400, 392>>, <<400, 392, 408>>,
     <<200, 200, 400, 392, 408, 400, 396, 404, 400, 392, 408, 400, 396, 404, 400, 400>>}

HrvSamples == {NoNum, 400, 388}

TopSet(targetVx, actualVx) == [targetVx |-> targetVx, actualVx |-> actualVx]

\* recent top sets: none; one; two usable; two usable and one without actualVx;
\* three usable; seven of which the window of five holds one usable; five
\* overshooting by two
TopSetHistories ==
    {<<>>,
     <<TopSet(2, 1)>>,
     <<TopSet(2, 0), TopSet(2, 0)>>,
     <<TopSet(2, 1), TopSet(2, NoNum), TopSet(2, 1)>>,
     <<TopSet(2, 2), TopSet(2, 1), TopSet(2, 2)>>,
     <<TopSet(2, 0), TopSet(2, 0), TopSet(2, NoNum), TopSet(NoNum, 1), TopSet(2, NoNum),
       TopSet(2, NoNum), TopSet(2, 1)>>,
     <<TopSet(2, 0), TopSet(2, 0), TopSet(2, 0), TopSet(2, 0), TopSet(2, 0)>>}

InitChannels ==
    /\ today = 0
    /\ settings = None
    /\ mesocycles = {}
    /\ sessions = <<>>
    /\ sets = <<>>
    /\ recommendations = {}
    /\ decisionTraces = <<>>
    /\ lastRun = None
    /\ nRuns = 0
    /\ nTicks = 0
    /\ fusionIn = <<NULL, NULL, NULL>>
    /\ fusionOut = None
    /\ samples \in [todayVelocity : VelocitySamples, velocityBaseline : VelocityHistories,
                     todayLnRMSSD : HrvSamples, hrvBaseline : HrvHistories,
                     recentTopSets : TopSetHistories]
    /\ channels = None
    /\ loaded = None
    /\ adaptationHistory = <<>>
    /\ movementProgress = None
    /\ lowerBody = FALSE
    /\ sessionLog = <<>>
    /\ suggestion = None
    /\ stagnation = None
    /\ nCalls = 0
    /\ SeededLibrary

\* the caller computes the three channels from what it has measured
assessReadiness ==
    /\ channels = None
    /\ channels' = Some([velocity |-> velocityReadiness(samples.todayVelocity,
                                                        samples.velocityBaseline),
                         hrv |-> hrvReadiness(samples.todayLnRMSSD, samples.hrvBaseline),
                         vara |-> varaReadiness(samples.recentTopSets, 5)])
    /\ UNCHANGED <<library, today, stores, lastRun, nRuns, nTicks, fusionIn, fusionOut, samples,
                   adapt, tracker>>

NextChannels == assessReadiness

SpecChannels == InitChannels /\ [][NextChannels]_vars

\* ------------------------------------------- runs over a logged history
\* the day after a session of day 0 was logged, with any of the set histories
InitTrend ==
    /\ today = 1
    /\ settings = None
    /\ mesocycles = {}
    /\ sessions = <<[dateISO |-> 0]>>
    /\ sets \in SetHistories(0) \cup LongSetHistories(0)
    /\ recommendations = {}
    /\ decisionTraces = <<>>
    /\ lastRun = None
    /\ nRuns = 0
    /\ nTicks = 0
    /\ fusionIn = <<NULL, NULL, NULL>>
    /\ fusionOut = None
    /\ samples = NoSamples
    /\ channels = None
    /\ loaded = None
    /\ adaptationHistory = <<>>
    /\ movementProgress = None
    /\ lowerBody = FALSE
    /\ sessionLog = <<>>
    /\ suggestion = None
    /\ stagnation = None
    /\ nCalls = 0
    /\ SeededLibrary

NextTrend == saveSettings \/ recommend

SpecTrend == InitTrend /\ [][NextTrend]_vars

\* ------------------------------------- a cycle object in the caller's hands
\* the weekdays the caller starts on: a Tuesday and a Friday
StartDays == {1, 4}

\* cycles a caller builds and passes as options.mesocycle: the default cycle,
\* one with no week plans, one whose weeks have no days, one whose only day (the
\* weekday of date d) has no slots, and one that trains on Friday and Sunday
GivenCycles(d) ==
    {createDefaultMesocycle(d, uid(0, "given", 1)),
     [createDefaultMesocycle(d, uid(0, "given", 2)) EXCEPT !.weekPlans = <<>>],
     [createDefaultMesocycle(d, uid(0, "given", 3)) EXCEPT
         !.weekPlans = [w \in 1..4 |-> [week |-> w, days |-> <<>>]]],
     [createDefaultMesocycle(d, uid(0, "given", 4)) EXCEPT
         !.weekPlans = [w \in 1..4 |->
             [week |-> w, days |-> <<DayPlan(DayOfWeek(d), "volume", <<>>)>>]]],
     [createDefaultMesocycle(d, uid(0, "given", 5)) EXCEPT
         !.weekPlans = [w \in 1..4 |->
             [week |-> w,
              days |-> <<DayPlan(5, "speed", <<Primary(4, 2, 4)>>),
                         DayPlan(7, "volume", <<Primary(5, 5, 3),
                             Slot("accessory", "vertikaalityonto", "Pystypunnerrus", 4, 8, 3)>>)>>]]]}

\* a session exercise with the first done of its total sets completed
Exercise(name, category, originalCategory, role, done, total) ==
    [name |-> name, category |-> category, originalCategory |-> originalCategory,
     role |-> role, sets |-> [k \in 1..total |-> [completed |-> k <= done]]]

\* the sessions a user logs against a day plan: two sets more than planned on
\* its last slot, one set fewer, the same after a swap to another movement, or an
\* exercise outside the plan
SessionExercises(slots) ==
    LET a == slots[Len(slots)]
    IN {<<Exercise(a.defaultMovementName, a.category, NULL, a.role, a.sets + 2, a.sets + 2)>>,
        <<Exercise(a.defaultMovementName, a.category, NULL, a.role, a.sets - 1, a.sets)>>,
        <<Exercise("Kulmasoutu", "muu", a.category, a.role, a.sets + 2, a.sets + 2)>>,
        <<Exercise("Vatsarutistus", "keskivartalo", NULL, "accessory", 2, 3)>>}

InitAdapt ==
    /\ today \in StartDays
    /\ settings = None
    /\ mesocycles = {}
    /\ sessions = <<>>
    /\ sets = <<>>
    /\ recommendations = {}
    /\ decisionTraces = <<>>
    /\ lastRun = None
    /\ nRuns = 0
    /\ nTicks = 0
    /\ fusionIn = <<NULL, NULL, NULL>>
    /\ fusionOut = None
    /\ samples = NoSamples
    /\ channels = None
    /\ loaded = None
    /\ adaptationHistory = <<>>
    /\ movementProgress = None
    /\ lowerBody = FALSE
    /\ sessionLog = <<>>
    /\ suggestion = None
    /\ stagnation = None
    /\ nCalls = 0
    /\ SeededLibrary

\* the caller takes a cycle object in hand: the active one of the store, or one
\* it builds
loadMesocycle ==
    /\ loaded = None
    /\ \E m \in (getActiveMesocycle(mesocycles) \ {None})
                \cup {Some(c) : c \in GivenCycles(today)} : loaded' = m
    /\ UNCHANGED <<library, today, stores, lastRun, nRuns, nTicks, fusion, adaptationHistory, tracker>>

\* a finished session is compared with the day plan of the last prescription
\* and its adjustments are appended to the history
recordAdaptation ==
    /\ lastRun # None
    /\ \E ex \in SessionExercises(lastRun[1].rec.dayPlan.slots) :
       \E found \in {analyzeSessionAdaptation(ex, lastRun[1].rec.dayPlan.slots)} :
          /\ Len(adaptationHistory) + Len(found) <= MaxAdjustments
          /\ adaptationHistory' = adaptationHistory \o found
    /\ UNCHANGED <<library, today, stores, lastRun, nRuns, nTicks, fusion, loaded, tracker>>

\* applyAdaptations(mesocycle, adaptationHistory) on the cycle object in hand
adaptMesocycle ==
    /\ loaded # None
    /\ loaded' = Some(applyAdaptations(loaded[1], adaptationHistory).mesocycle)
    /\ UNCHANGED <<library, today, stores, lastRun, nRuns, nTicks, fusion, adaptationHistory, tracker>>

NextAdapt == loadMesocycle \/ recordAdaptation \/ adaptMesocycle \/ recommend

SpecAdapt == InitAdapt /\ [][NextAdapt]_vars

\* ------------------------------------------ the progression of one movement
\* the targets of the slot the movement is trained in
SlotTargetReps == 8
SlotTargetVx == 3

\* a set of the tracked accessory movement
AccessorySet(externalLoadKg, reps, targetReps, actualVx) ==
    [movementId |-> "penkkiveto", externalLoadKg |-> externalLoadKg, reps |-> reps,
     targetReps |-> targetReps, actualVx |-> actualVx, targetVx |-> SlotTargetVx]

\* the sessions of the movement: two sets on target at 80 kg, the second set
\* two reps short, one set at 81.3 kg without a recorded Vx, one set with a Vx
\* below the target, one set without added load, and a session without sets
AccessorySessions ==
    {<<AccessorySet(800, 8, 8, 3), AccessorySet(800, 8, 8, 4)>>,
     <<AccessorySet(800, 8, 8, 3), AccessorySet(800, 6, 8, 3)>>,
     <<AccessorySet(813, 9, NoNum, NoNum)>>,
     <<AccessorySet(825, 8, 8, 1)>>,
     <<AccessorySet(0, 10, 8, 3)>>,
     <<>>}

\* the sessions a movement already has behind it: none, or three or six
\* sessions of one set of 8 reps at 80 kg with a Vx below the target
StartLogs ==
    {<<>>, [i \in 1..3 |-> <<AccessorySet(800, 8, 8, 1)>>],
     [i \in 1..6 |-> <<AccessorySet(800, 8, 8, 1)>>]}

\* the record of the movement after the sessions of a log, from no record
RecordAfter(log) ==
    LET record[k \in 0..Len(log)] ==
            IF k = 0 THEN None
            ELSE updateMovementProgressFromSets(record[k - 1], log[k],
                                                SlotTargetReps, SlotTargetVx)
    IN record[Len(log)]

InitProgress ==
    /\ today = 0
    /\ settings = None
    /\ mesocycles = {}
    /\ sessions = <<>>
    /\ sets = <<>>
    /\ recommendations = {}
    /\ decisionTraces = <<>>
    /\ lastRun = None
    /\ nRuns = 0
    /\ nTicks = 0
    /\ fusionIn = <<NULL, NULL, NULL>>
    /\ fusionOut = None
    /\ samples = NoSamples
    /\ channels = None
    /\ loaded = None
    /\ adaptationHistory = <<>>
    /\ \E log \in StartLogs : sessionLog = log /\ movementProgress = RecordAfter(log)
    /\ lowerBody \in BOOLEAN
    /\ suggestion = None
    /\ stagnation = None
    /\ nCalls = 0
    /\ SeededLibrary

\* after a session the caller updates the record of the movement
logAccessorySession ==
    /\ nCalls < MaxCalls
    /\ nCalls' = nCalls + 1
    /\ \E sessionSets \in AccessorySessions :
          /\ movementProgress' = updateMovementProgressFromSets(movementProgress, sessionSets,
                                              SlotTargetReps, SlotTargetVx)
          /\ sessionLog' = Append(sessionLog, sessionSets)
    /\ UNCHANGED <<library, today, stores, lastRun, nRuns, nTicks, fusion, adapt, lowerBody, suggestion,
                   stagnation>>

\* accessoryProgression(progress, isLowerBody) called with the class of the movement
suggestProgression ==
    /\ suggestion' = Some([given |-> movementProgress,
                           result |-> accessoryProgression(movementProgress, lowerBody)])
    /\ UNCHANGED <<library, today, stores, lastRun, nRuns, nTicks, fusion, adapt, movementProgress,
                   lowerBody, sessionLog, stagnation, nCalls>>

\* checkStagnation(progress) on the record of the movement
reviewStagnation ==
    /\ stagnation' = Some([given |-> movementProgress,
                           result |-> checkStagnation(movementProgress)])
    /\ UNCHANGED <<library, today, stores, lastRun, nRuns, nTicks, fusion, adapt, movementProgress,
                   lowerBody, sessionLog, suggestion, nCalls>>

NextProgress == logAccessorySession \/ suggestProgression \/ reviewStagnation

SpecProgress == InitProgress /\ [][NextProgress]_vars

\* ------------------------------------------------------ backup and restore
\* what a user has logged before the backup: nothing, or a session with sets
\* and a cycle
LoggedBefore ==
    {[sessions |-> <<>>, sets |-> <<>>, mesocycles |-> {}],
     [sessions |-> <<[dateISO |-> 0]>>,
      sets |-> <<SetRec("top", 1, 25, 3, 1, 2), SetRec("top", 2, 20, 3, 1, 2)>>,
      mesocycles |-> {createDefaultMesocycle(0, uid(0, "meso", 1))}]}

InitBackup ==
    /\ today = 0
    /\ settings = None
    /\ \E logged \in LoggedBefore :
          /\ sessions = logged.sessions
          /\ sets = logged.sets
          /\ mesocycles = logged.mesocycles
    /\ recommendations = {}
    /\ decisionTraces = <<>>
    /\ lastRun = None
    /\ nRuns = 0
    /\ nTicks = 0
    /\ fusionIn = <<NULL, NULL, NULL>>
    /\ fusionOut = None
    /\ samples = NoSamples
    /\ channels = None
    /\ loaded = None
    /\ adaptationHistory = <<>>
    /\ movementProgress = None
    /\ lowerBody = FALSE
    /\ sessionLog = <<>>
    /\ suggestion = None
    /\ stagnation = None
    /\ nCalls = 0
    /\ SeededLibrary

\* initDB(): the application is opened again
initDB ==
    /\ movements # {} \/ nSeeds < MaxSeeds
    /\ \E seeded \in {seedPresets([movements |-> movements, variants |-> variants,
                                   meta |-> meta, seeded |-> FALSE], nSeeds + 1, today)} :
          /\ movements' = seeded.movements
          /\ variants' = seeded.variants
          /\ meta' = updateLastOpened(seeded.meta, today)
          /\ nSeeds' = IF seeded.seeded THEN nSeeds + 1 ELSE nSeeds
    /\ UNCHANGED <<backup, today, stores, lastRun, nRuns, nTicks, fusion, adapt, tracker>>

\* deleteMovement(movementId); the user removes the movements in the order of
\* the list
deleteMovement ==
    /\ \E m \in movements :
          /\ \A o \in movements : m.movementId[3] <= o.movementId[3]
          /\ movements' = movements \ {m}
    /\ UNCHANGED <<variants, meta, backup, nSeeds, today, stores, lastRun, nRuns, nTicks,
                   fusion, adapt, tracker>>

\* exportFullBackup(): every store read, and _meta
exportFullBackup ==
    /\ backup' = Some([data |-> StoreContents,
                       _meta |-> [exportedAtISO |-> today, appVersion |-> "1.0.0",
                                  schemaVersion |-> 3]])
    /\ UNCHANGED <<movements, variants, meta, nSeeds, today, stores, lastRun, nRuns, nTicks,
                   fusion, adapt, tracker>>

\* importFullBackup(data) of the backup last exported: every store cleared,
\* the records of the backup put, and the presets seeded when no movement came
\* with it
importFullBackup ==
    /\ backup # None
    /\ backup[1].data.movements # {} \/ nSeeds < MaxSeeds
    /\ \E data \in {backup[1].data} :
       \E seeded \in {seedPresets([movements |-> data.movements, variants |-> data.variants,
                                   meta |-> data.appMeta.meta, seeded |-> FALSE],
                                  nSeeds + 1, today)} :
          /\ movements' = seeded.movements
          /\ variants' = seeded.variants
          /\ meta' = seeded.meta
          /\ nSeeds' = IF seeded.seeded THEN nSeeds + 1 ELSE nSeeds
          /\ settings' = data.appMeta.settings
          /\ sessions' = data.sessions
          /\ sets' = data.sets
          /\ mesocycles' = data.mesocycles
          /\ recommendations' = data.recommendations
          /\ decisionTraces' = data.decisionTraces
    /\ UNCHANGED <<backup, today, lastRun, nRuns, nTicks, fusion, adapt, tracker>>

NextBackup == saveSettings \/ initDB \/ deleteMovement \/ exportFullBackup \/ importFullBackup

SpecBackup == InitBackup /\ [][NextBackup]_vars

\* ----------------------------------------------------------------- claims
\* The last run of recommend() and its returned prescription
Ran == lastRun # None
Run == lastRun[1]
Rec == lastRun[1].rec

\* the readiness cap as the rule states it, on an adjustment a
CapRule(a, capLevel) ==
    CASE capLevel = 2 -> (IF a > 0 THEN 0 ELSE a)
      [] capLevel = 1 -> a \div 2
      [] OTHER -> a

\* C1: in every run the adjustment before the readiness cap is
\* clamp(phase coefficient x day-type multiplier + trend correction + break
\* modifier, -max, +max), with the day type in force after the break override and
\* the coefficient of the week definition the run selected; the cap is applied
\* to that clamped value; and the returned adjustment lies in [-max, +max].
C1_AdjustmentIsClampedSumThenCapped ==
    Ran =>
        LET coefficient == DefaultWeekDefs[Run.weekOfCycle].deltaPctBase
            sum == (coefficient * DAY_TYPE_MULTIPLIERS(Run.dayTypeBeforeCap)) \div 10
                   + Run.varaCorr + Run.breakModifier
            max == Run.maxDelta
        IN /\ max = (IF Run.reads[2] = None THEN Pct(25, 100) ELSE Run.reads[2][1].maxDelta)
           /\ Run.clamped = (IF sum < -max THEN -max ELSE IF sum > max THEN max ELSE sum)
           /\ Rec.deltaPct = CapRule(Run.clamped, Rec.capLevel)
           /\ -max <= Rec.deltaPct
           /\ Rec.deltaPct <= max

\* a run in which the break override changed the day type, the trend correction
\* and the break modifier were both non-zero, and the clamp cut the sum
C1_Witness ==
    /\ Ran
    /\ Run.dayTypeBeforeCap # Run.dayTypePlanned
    /\ Run.varaCorr # 0
    /\ Run.breakModifier # 0
    /\ Run.clamped # Run.deltaPctRawValue

\* C2: whenever the last session lies 14 or more days before the current date,
\* the run installs a fresh cycle starting at the current date and returns the
\* prescription of week 1 of that cycle: week number 1 with the label, the base
\* coefficient and the rep and effort targets of week 1.
C2_LongBreakGivesWeekOne ==
    (Ran /\ Run.breakDays >= 14) =>
        LET week1 == DefaultWeekDefs[1]
        IN /\ Run.reset
           /\ Rec.mesocycleId = uid(Rec.recId[1], "meso", 3)
           /\ (~Run.dryRun =>
                  \E m \in mesocycles : /\ m.mesocycleId = Rec.mesocycleId
                                        /\ m.startDateISO = Rec.dateISO)
           /\ Rec.weekNum = 1
           /\ Rec.weekLabel = week1.label
           /\ Run.phaseTerm
              = (week1.deltaPctBase * DAY_TYPE_MULTIPLIERS(Run.dayTypeBeforeCap)) \div 10
           /\ Rec.targetReps = (IF Rec.dayType = "heavy" THEN week1.heavyReps
                                ELSE IF Rec.dayType = "volume" THEN 5 ELSE 2)
           /\ Rec.targetVx = (IF Rec.dayType = "heavy" THEN week1.heavyTargetVx
                              ELSE IF Rec.dayType = "volume" THEN 3 ELSE 4)

\* a run after a break of 14 days or more that found the cycle in a later week
C2_Witness ==
    /\ Ran
    /\ Run.breakDays >= 14
    /\ Run.reset
    /\ Run.weekOfCycle > 1
    /\ Rec.weekNum = 1

\* C3: in a run that is not a dry run the cycle is written at most once, and
\* every store write of the run is made by the final persistence step.
C3_SingleFinalWrite ==
    (Ran /\ ~Run.dryRun) =>
        /\ Cardinality({k \in 1..Len(Run.writes) : Run.writes[k].store = "mesocycles"}) <= 1
        /\ \A k \in 1..Len(Run.writes) : Run.writes[k].step = "save"

\* a run that is not a dry run, found no cycle and came back from a long break
C3_Witness ==
    /\ Ran
    /\ ~Run.dryRun
    /\ Run.created
    /\ Run.reset

\* C4: a dry run writes to no store in any branch and still returns the full
\* prescription with its ordered trace.
C4_DryRunWritesNothing ==
    [][(nRuns' # nRuns /\ lastRun'[1].dryRun) =>
          /\ stores' = stores
          /\ lastRun'[1].writes = <<>>
          /\ LET rec == lastRun'[1].rec
                 at(ruleId) == {i \in 1..Len(rec.traces) : rec.traces[i].ruleId = ruleId}
             IN /\ rec.weekNum >= 1
                /\ rec.dayType \in DayTypes
                /\ rec.setCount >= 3
                /\ Len(rec.dayPlan.slots) >= 1
                /\ \A i \in 1..Len(rec.traces) : rec.traces[i].recId = rec.recId
                /\ \E i \in at("MESOCYCLE_PHASE"), j \in at("E1RM_COMPUTED"),
                      k \in at("DELTA_PCT_RAW"), l \in at("TARGET_LOAD") :
                        i < j /\ j < k /\ k < l]_vars

\* a dry run that found no cycle and came back from a long break: it created
\* two cycles and the store holds none
C4_Witness ==
    /\ Ran
    /\ Run.dryRun
    /\ Run.created
    /\ Run.reset
    /\ mesocycles = {}
    /\ recommendations = {}
    /\ decisionTraces = <<>>

\* C5: for every clamped adjustment a and every capLevel the capped adjustment
\* is never greater than a, and a non-positive a is left unchanged.
C5_CapOnlyRestrictsUpward ==
    Ran => /\ Rec.deltaPct <= Run.clamped
           /\ (Run.clamped <= 0 => Rec.deltaPct = Run.clamped)

\* a YELLOW run whose clamped adjustment is negative
C5_Witness ==
    /\ Ran
    /\ Rec.capLevel = 1
    /\ Run.clamped < 0

C7_FusionRule ==
    fusionOut # None =>
        LET out == fusionOut[1]
            n(c) == Cardinality({i \in 1..3 : fusionIn[i] = c})
            base == IF n("GREEN") >= 2 THEN "GREEN"
                    ELSE IF n("RED") >= 2 \/ (n("RED") >= 1 /\ n("YELLOW") >= 1) THEN "RED"
                    ELSE "YELLOW"
            otherBad == fusionIn[2] \in {"YELLOW", "RED"} \/ fusionIn[3] \in {"YELLOW", "RED"}
        IN /\ n(NULL) = 3 => out.combined = "GREEN"
           /\ (n(NULL) < 3 /\ fusionIn[1] # "RED") => out.combined = base
           /\ fusionIn[1] = "RED" =>
                 /\ out.combined # "GREEN"
                 /\ otherBad => out.combined = "RED"
                 /\ ~otherBad => out.combined = (IF base = "GREEN" THEN "YELLOW" ELSE base)
           /\ out.capLevel = 0 <=> out.combined = "GREEN"
           /\ out.capLevel = 1 <=> out.combined = "YELLOW"
           /\ out.capLevel = 2 <=> out.combined = "RED"
           /\ out.channels.velocity.class = fusionIn[1]
           /\ out.channels.hrv.class = fusionIn[2]
           /\ out.channels.vara.class = fusionIn[3]

\* velocity RED against two GREEN channels: the base class GREEN is escalated
C7_Witness ==
    /\ fusionOut # None
    /\ fusionIn = <<"RED", "GREEN", "GREEN">>
    /\ fusionOut[1].combined = "YELLOW"
    /\ fusionOut[1].capLevel = 1

\* the entries of a trace that record a change of the adjustment percentage
AdjustmentEntries(traces) ==
    {i \in 1..Len(traces) :
        traces[i].ruleId \in {"VARA_TREND_CORRECTION", "BREAK_MODIFIER", "CLAMP",
                              "CAP_RED", "CAP_YELLOW"}}

\* C8: every step that changes the adjustment percentage (trend correction,
\* break modifier, clamp, readiness cap) appends one trace entry with the
\* adjustment before and after the step; so each such entry's before value is
\* the previous one's after value, and the last after value is the
\* prescription's adjustment.
C8_AdjustmentStepsTraced ==
    Ran =>
        LET tr == Rec.traces
            adj == AdjustmentEntries(tr)
            entry(before, after) ==
                \E i \in adj : tr[i].before.deltaPct = before /\ tr[i].after.deltaPct = after
            afterTrend == Run.phaseTerm + Run.varaCorr
        IN /\ Run.varaCorr # 0 => entry(Run.phaseTerm, afterTrend)
           /\ Run.breakModifier # 0 => entry(afterTrend, Run.deltaPctRawValue)
           /\ Run.clamped # Run.deltaPctRawValue => entry(Run.deltaPctRawValue, Run.clamped)
           /\ Rec.deltaPct # Run.clamped => entry(Run.clamped, Rec.deltaPct)
           /\ \A i, j \in adj :
                 (i < j /\ \A k \in adj : ~(i < k /\ k < j))
                     => tr[j].before.deltaPct = tr[i].after.deltaPct
           /\ \A i \in adj : (\A k \in adj : k <= i) => tr[i].after.deltaPct = Rec.deltaPct

\* a run whose clamp cut the sum of the terms
C8_Witness ==
    /\ Ran
    /\ Run.clamped # Run.deltaPctRawValue
    /\ AdjustmentEntries(Rec.traces) # {}

\* C9: a run that is not a dry run writes exactly one prescription record and
\* then every trace entry of the run exactly once, in the order the entries
\* were appended, each with the identifier of that prescription; no stored
\* entry has a null identifier or the identifier of another run.
C9_OneRecordThenTraces ==
    [][(nRuns' # nRuns /\ ~lastRun'[1].dryRun) =>
          LET rec == lastRun'[1].rec
              w == lastRun'[1].writes
              recWrites == {k \in 1..Len(w) : w[k].store = "recommendations"}
              traceWrites == {k \in 1..Len(w) : w[k].store = "decisionTraces"}
              old == Len(decisionTraces)
          IN /\ Cardinality(recWrites) = 1
             /\ \A k \in recWrites : w[k].key = rec.recId
             /\ \A k \in recWrites, l \in traceWrites : k < l
             /\ Cardinality(traceWrites) = Len(rec.traces)
             /\ Len(rec.traces) >= 1
             /\ rec.recId # NoId
             /\ \A r \in recommendations : r.recId # rec.recId
             /\ recommendations' \ recommendations
                = {r \in recommendations' : r.recId = rec.recId}
             /\ Cardinality(recommendations') = Cardinality(recommendations) + 1
             /\ Len(decisionTraces') = old + Len(rec.traces)
             /\ \A i \in 1..old : decisionTraces'[i] = decisionTraces[i]
             /\ \A i \in 1..Len(rec.traces) :
                   /\ decisionTraces'[old + i] = rec.traces[i]
                   /\ decisionTraces'[old + i].recId = rec.recId
             /\ \A i \in 1..Len(decisionTraces') :
                   /\ decisionTraces'[i].recId # NoId
                   /\ decisionTraces'[i].recId[1] = decisionTraces'[i].traceId[1]
                   /\ \E r \in recommendations' : r.recId = decisionTraces'[i].recId]_vars

\* two runs that were not dry runs: the store holds the entries of both
C9_Witness ==
    /\ Ran
    /\ ~Run.dryRun
    /\ Cardinality(recommendations) = 2
    /\ Len(decisionTraces) > Len(Rec.traces)
    /\ decisionTraces[1].recId # Rec.recId
    /\ decisionTraces[Len(decisionTraces)].recId = Rec.recId

\* a prescription without its identifiers and its trace
WithoutIds(rec) == [rec EXCEPT !.recId = NoId, !.mesocycleId = NoId, !.traces = <<>>]

C11_WeekOfCycle ==
    /\ \A d \in 0..MaxOffset :
          getMesocycleWeek([startDateISO |-> today, weekCount |-> 4], today + d)
          = (IF d <= 27 THEN (d \div 7) + 1 ELSE NoNum)
    /\ \A m \in mesocycles :
          getMesocycleWeek(m, today)
          = (IF today - m.startDateISO \in 0..27 THEN ((today - m.startDateISO) \div 7) + 1
             ELSE NoNum)
    /\ Ran =>
          /\ Rec.weekNum \in 1..4
          /\ Run.weekOfCycle \in 1..4
          /\ Run.created <=> Run.reads[3] = {}
          /\ Run.expired <=>
                (Run.reads[3] # {}
                 /\ \A m \in Run.reads[3] : Rec.dateISO - m.startDateISO > 27)
          /\ (Run.created \/ Run.expired) =>
                /\ Len(Run.cycles) >= 1
                /\ Run.cycles[1].startDateISO = Rec.dateISO
                /\ Run.cycles[1].weekCount = 4
                /\ Len(Run.cycles[1].weekDefs) = 4
                /\ \A m \in Run.reads[3] : m.mesocycleId # Run.cycles[1].mesocycleId
                /\ Run.weekOfCycle = 1
                /\ ~Run.dryRun => Run.cycles[1] \in mesocycles

\* a run on day 28 of the active cycle: the week is null and a new cycle is made
C11_Witness ==
    /\ Ran
    /\ Run.expired
    /\ Run.reads[3] # {}
    /\ \E m \in Run.reads[3] : Rec.dateISO - m.startDateISO = 28
    /\ Rec.weekNum = 1

\* the classes of the three channels of a run, and those that are YELLOW or RED
RunChannels == {Run.classes[i] : i \in 1..3}
AllThreeBad == \A i \in 1..3 : Run.classes[i] \in {"YELLOW", "RED"}

\* C12: accessoryCapActive is true only if all three readiness channels are
\* active and each one is YELLOW or RED; a combined RED with an inactive or a
\* GREEN channel never activates the accessory cap.
C12_AccessoryCapOnlyIfAllThree ==
    (Ran /\ Rec.accessoryCapActive) => AllThreeBad

\* a run with a combined RED and an inactive channel
C12_Witness ==
    /\ Ran
    /\ Rec.capLevel = 2
    /\ NULL \in RunChannels
    /\ "GREEN" \notin RunChannels

PlannedSlot(i) == Run.planned[1].slots[i]
ReturnedSlot(i) == Rec.dayPlan.slots[i]

\* r is 0.7 * p rounded to the nearest whole number, halves upward
IsSeventyPctRounded(r, p) == 10 * r - 5 <= 7 * p /\ 7 * p < 10 * r + 5

C15_CyclesNeverPatched ==
    [][/\ (loaded # None /\ loaded' # None /\ loaded'[1].mesocycleId = loaded[1].mesocycleId)
             => loaded' = loaded
       /\ \A m \in mesocycles : \A m2 \in mesocycles' :
             m2.mesocycleId = m.mesocycleId => m2 = m]_vars

\* a cycle object in hand whose slot set counts are no longer those it was
\* created with
C15_Witness ==
    /\ loaded # None
    /\ loaded[1].mesocycleId = uid(0, "given", 1)
    /\ loaded[1].weekDefs = DefaultWeekDefs
    /\ loaded[1].weekPlans # DefaultWeekPlans

\* the modifier (in 1/Scale) and the forced day type the thresholds give d days
BreakTier(d) ==
    IF d < 7 THEN <<0, NULL>>
    ELSE IF d <= 13 THEN <<0 - Pct(5, 100), NULL>>
    ELSE IF d <= 27 THEN <<0 - Pct(10, 100), "volume">>
    ELSE <<0 - Pct(15, 100), "volume">>

\* C16: breakAnalysis gives d whole days since the last session modifier 0 below
\* 7, -5% for 7..13, -10% and a forced volume day for 14..27, -15% and a forced
\* volume day from 28 on; with no session modifier 0 and nothing forced; the
\* reset is flagged exactly for 2 or more skipped weeks; recommend() applies
\* these to the latest date of the stored sessions
C16_BreakTiers ==
    /\ \A d \in (0 - 3)..MaxOffset :
          /\ breakAnalysis(today + 3, today + 3 + d).breakDays = d
          /\ <<breakAnalysis(today + 3, today + 3 + d).modifier,
               breakAnalysis(today + 3, today + 3 + d).forcedDayType>> = BreakTier(d)
    /\ breakAnalysis(NoNum, today).modifier = 0
    /\ breakAnalysis(NoNum, today).forcedDayType = NULL
    /\ \A w \in 0..(MaxOffset \div 7) : mesocycleBreakReset(w) <=> w >= 2
    /\ Ran =>
          /\ Run.reads[4] = <<>> => (Run.breakDays = NoNum /\ Run.breakModifier = 0 /\ ~Run.reset)
          /\ Run.reads[4] # <<>> =>
                /\ \E i \in 1..Len(Run.reads[4]) :
                      /\ \A j \in 1..Len(Run.reads[4]) :
                            Run.reads[4][j].dateISO <= Run.reads[4][i].dateISO
                      /\ Run.breakDays = Rec.dateISO - Run.reads[4][i].dateISO
                /\ Run.breakModifier = BreakTier(Run.breakDays)[1]
                /\ Run.dayTypeBeforeCap = (IF BreakTier(Run.breakDays)[2] = NULL
                                           THEN Run.dayTypePlanned ELSE "volume")
                /\ Run.reset <=> (Run.breakDays \div 7) >= 2

C16_Witness ==
    /\ Ran /\ Run.breakDays = 28 /\ Run.breakModifier = 0 - Pct(15, 100)
    /\ Run.dayTypePlanned = "heavy" /\ Run.dayTypeBeforeCap = "volume" /\ Run.reset

\* the stored sets that count for the estimated max
EstimateSets == {i \in 1..Len(Run.reads[5]) :
                    Run.reads[5][i].setRole \in {"top", "readiness_test"}}

\* C17: the target load is null exactly when no top or readiness-test set gives
\* an estimated max; the prescription then still has a day type, target reps,
\* target Vx, a set count and a day plan; a target load that is not null is a
\* whole, non-negative number of half kilograms
C17_NullLoadOnlyWithoutEstimate ==
    Ran =>
        /\ (Rec.targetExternalLoad = NoNum) <=> (EstimateSets = {})
        /\ (Rec.e1rmSystem = NoNum) <=> (EstimateSets = {})
        /\ Rec.targetExternalLoad # NoNum => Rec.targetExternalLoad \in Nat
        /\ Rec.dayType \in DayTypes
        /\ Rec.targetReps \in 1..5 /\ Rec.targetVx \in 0..4 /\ Rec.setCount \in 1..5
        /\ Len(Rec.dayPlan.slots) >= 1

C17_Witness ==
    /\ Ran /\ Rec.targetExternalLoad = NoNum /\ Run.reads[5] # <<>>
    /\ Rec.dayType = "volume" /\ Rec.targetReps = 5 /\ Rec.targetVx = 3
    /\ Len(Rec.dayPlan.slots) >= 1

\* the days of the week plan the run resolved its day in, and its weekday
PlanDays ==
    LET weekPlans == Run.planCycle.weekPlans
        W == {i \in 1..Len(weekPlans) : weekPlans[i].week = Run.weekOfCycle}
    IN IF W = {} THEN <<>> ELSE weekPlans[CHOOSE i \in W : \A j \in W : i <= j].days

Weekday == DayOfWeek(Rec.dateISO)

\* the distance of two weekdays round the week
CircularDistance(a, b) == IF Abs(a - b) <= 7 - Abs(a - b) THEN Abs(a - b) ELSE 7 - Abs(a - b)

\* the three stages
ResolvedExact ==
    /\ Ran
    /\ \E i \in 1..Len(PlanDays) : PlanDays[i].dayOfWeek = Weekday
ResolvedNearest ==
    /\ Ran /\ Len(PlanDays) > 0
    /\ \A i \in 1..Len(PlanDays) : PlanDays[i].dayOfWeek # Weekday
ResolvedGenerated ==
    /\ Ran
    /\ Len(PlanDays) = 0 \/ Run.planned = None \/ Len(Run.planned[1].slots) = 0

\* C18: every prescription has a day plan of at least one slot: the day of the
\* week plan on the weekday of the date; else a day of that week at the smallest
\* distance round the week; else, with no day in the week or no slot in the day
\* found, a plan made for the day type that has a primary slot
C18_DayPlanInThreeStages ==
    Ran =>
        /\ Len(Rec.dayPlan.slots) >= 1
        /\ ResolvedExact =>
              /\ Run.planned # None
              /\ Run.planned[1].dayOfWeek = Weekday
              /\ \E i \in 1..Len(PlanDays) : Run.planned[1] = PlanDays[i]
        /\ ResolvedNearest =>
              /\ Run.planned # None
              /\ \E i \in 1..Len(PlanDays) : Run.planned[1] = PlanDays[i]
              /\ \A j \in 1..Len(PlanDays) :
                    CircularDistance(Run.planned[1].dayOfWeek, Weekday)
                    <= CircularDistance(PlanDays[j].dayOfWeek, Weekday)
        /\ Len(PlanDays) = 0 => Run.planned = None
        /\ ResolvedGenerated =>
              /\ Rec.dayPlan.dayOfWeek = NoNum
              /\ Rec.dayPlan.dayType = Rec.dayType
              /\ \E i \in 1..Len(Rec.dayPlan.slots) : Rec.dayPlan.slots[i].role = "primary"
        /\ ~ResolvedGenerated =>
              /\ Rec.dayPlan.dayOfWeek = Run.planned[1].dayOfWeek
              /\ Len(Rec.dayPlan.slots) = Len(Run.planned[1].slots)

\* the Sunday of a Friday-and-Sunday week found on a Tuesday
C18_Witness ==
    /\ ResolvedNearest /\ Weekday = 2
    /\ Run.planned[1].dayOfWeek = 7 /\ PlanDays[1].dayOfWeek = 5
    /\ Rec.dayPlan.dayOfWeek = 7

\* every set of a logged session reached its target reps (the slot's where the
\* set names none) and, where its Vx was recorded, its target Vx
SessionMet(s) ==
    \A i \in 1..Len(s) :
        /\ s[i].reps >= (IF s[i].targetReps = NoNum THEN SlotTargetReps ELSE s[i].targetReps)
        /\ s[i].actualVx = NoNum \/ s[i].actualVx >= s[i].targetVx

\* the two most recent sessions with sets in a log both met their targets
LastTwoMet(log) ==
    \E i, j \in 1..Len(log) :
        /\ i < j /\ log[i] # <<>> /\ log[j] # <<>>
        /\ \A k \in (i + 1)..Len(log) : k # j => log[k] = <<>>
        /\ SessionMet(log[i]) /\ SessionMet(log[j])

\* C19: a call with a session of at least one set leaves the counter at the
\* previous value + 1 when every set met its targets and at 0 otherwise, and the
\* stored action 'increase' exactly when the counter is 2 or more, 'hold'
\* otherwise, so 'increase' exactly when the two most recent sessions both met
\* their targets; a call with a session without sets leaves the record as it was
C19_CounterAndAction ==
    [][sessionLog' # sessionLog =>
         IF sessionLog'[Len(sessionLog')] = <<>>
         THEN movementProgress' = movementProgress
         ELSE /\ movementProgress' # None
              /\ movementProgress'[1].consecutiveTargetMetSessions
                 = (IF ~SessionMet(sessionLog'[Len(sessionLog')]) THEN 0
                    ELSE IF movementProgress = None THEN 1
                    ELSE movementProgress[1].consecutiveTargetMetSessions + 1)
              /\ movementProgress'[1].suggestedAction
                 = (IF movementProgress'[1].consecutiveTargetMetSessions >= 2
                    THEN "increase" ELSE "hold")
              /\ (movementProgress'[1].suggestedAction = "increase")
                 <=> LastTwoMet(sessionLog')]_vars

\* two sessions on target with a session without sets between them
C19_Witness ==
    /\ Len(sessionLog) = 3 /\ sessionLog[2] = <<>>
    /\ SessionMet(sessionLog[1]) /\ sessionLog[1] # <<>>
    /\ SessionMet(sessionLog[3]) /\ sessionLog[3] # <<>>
    /\ movementProgress # None
    /\ movementProgress[1].consecutiveTargetMetSessions = 2
    /\ movementProgress[1].suggestedAction = "increase"

\* the increment of the class of the tracked movement, in 1/10 kg
ClassIncrement == IF lowerBody THEN 50 ELSE 25

\* r is v rounded to the nearest half kilogram (loads in 1/10 kg)
IsNearestHalf(r, v) == r % 5 = 0 /\ 0 - 5 < 2 * (r - v) /\ 2 * (r - v) <= 5

\* a load that is null or zero counts as zero
LoadOrZero(kg) == IF kg = NoNum THEN 0 ELSE kg

\* the suggested load of a direct accessoryProgression call follows the class
C20_DirectCallByClass ==
    (suggestion # None /\ suggestion[1].result.action = "increase") =>
        IsNearestHalf(suggestion[1].result.suggestedLoad,
                      LoadOrZero(suggestion[1].given[1].lastLoadKg) + ClassIncrement)

\* C20: where 'increase' is suggested, the suggested load is the last load plus
\* the increment of the movement's class (2.5 kg upper body, 5 kg lower body)
\* rounded to the nearest half kilogram, in what accessoryProgression returns and
\* in the record updateMovementProgressFromSets leaves
C20_IncrementByClass ==
    /\ C20_DirectCallByClass
    /\ (movementProgress # None /\ movementProgress[1].suggestedAction = "increase") =>
          IsNearestHalf(movementProgress[1].suggestedLoadKg,
                        LoadOrZero(movementProgress[1].lastLoadKg) + ClassIncrement)

\* a lower-body movement whose record suggests the last load plus 2.5 kg
C20_Witness ==
    /\ lowerBody /\ movementProgress # None
    /\ movementProgress[1].suggestedAction = "increase"
    /\ movementProgress[1].lastLoadKg = 800
    /\ movementProgress[1].suggestedLoadKg = 825
    /\ suggestion # None /\ suggestion[1].given = movementProgress
    /\ suggestion[1].result.suggestedLoad = 850

\* the estimated max of the last set of a session, in 1/300 kg
SessionMax(s) == s[Len(s)].externalLoadKg * (30 + s[Len(s)].reps)

\* an update by a session with sets whose last set carries load, of a record
\* that has an estimated max
UpdateWithBothMaxes ==
    /\ nCalls' # nCalls
    /\ sessionLog'[Len(sessionLog')] # <<>>
    /\ sessionLog'[Len(sessionLog')][Len(sessionLog'[Len(sessionLog')])].externalLoadKg > 0
    /\ movementProgress # None
    /\ movementProgress[1].currentE1RM # NoNum

\* C21: an update with a previous and a new estimated max adds 1 to the
\* stagnation counter when new <= previous, and sets the counter to 0 and clears
\* the flag when new > previous; the flag is set whenever the counter is 3 or
\* more; checkStagnation reports no stagnation below 3, 'yellow' for 3..5 and
\* 'orange' from 6 on; with a counter of 3 or more and fewer than 2 consecutive
\* sessions on target accessoryProgression holds with the stagnation warning
C21_Stagnation ==
    /\ [][UpdateWithBothMaxes =>
            /\ movementProgress'[1].currentE1RM = SessionMax(sessionLog'[Len(sessionLog')])
            /\ SessionMax(sessionLog'[Len(sessionLog')]) <= movementProgress[1].currentE1RM
                  => movementProgress'[1].stagnationWeeks
                     = movementProgress[1].stagnationWeeks + 1
            /\ SessionMax(sessionLog'[Len(sessionLog')]) > movementProgress[1].currentE1RM
                  => /\ movementProgress'[1].stagnationWeeks = 0
                     /\ ~movementProgress'[1].stagnationFlagged]_vars
    /\ [](movementProgress # None /\ movementProgress[1].stagnationWeeks >= 3
             => movementProgress[1].stagnationFlagged)
    /\ [](stagnation # None /\ stagnation[1].given # None =>
             /\ stagnation[1].given[1].stagnationWeeks < 3
                   => (~stagnation[1].result.stagnated /\ stagnation[1].result.severity = NULL)
             /\ stagnation[1].given[1].stagnationWeeks \in 3..5
                   => (stagnation[1].result.stagnated /\ stagnation[1].result.severity = "yellow")
             /\ stagnation[1].given[1].stagnationWeeks >= 6
                   => (stagnation[1].result.stagnated /\ stagnation[1].result.severity = "orange"))
    /\ [](stagnation # None /\ stagnation[1].given = None => ~stagnation[1].result.stagnated)
    /\ []((/\ suggestion # None /\ suggestion[1].given # None
           /\ suggestion[1].given[1].stagnationWeeks >= 3
           /\ suggestion[1].given[1].consecutiveTargetMetSessions < 2)
             => (suggestion[1].result.action = "hold" /\ suggestion[1].result.stagnationWarning))

\* a counter reset by a risen estimated max after six weeks without progress was
\* reported 'orange'
C21_Witness ==
    /\ stagnation # None /\ stagnation[1].given # None
    /\ stagnation[1].given[1].stagnationWeeks = 6
    /\ stagnation[1].result.severity = "orange"
    /\ movementProgress # None
    /\ movementProgress[1].stagnationWeeks = 0 /\ ~movementProgress[1].stagnationFlagged
    /\ Len(movementProgress[1].e1rmHistory) >= 2

\* ------------------------------------------------------------------- C22
\* the usable sets in the recovery channel's window of five
UsableTopSets ==
    Cardinality({i \in 1..Len(samples.recentTopSets) :
                   /\ i > Len(samples.recentTopSets) - 5
                   /\ samples.recentTopSets[i].targetVx # NoNum
                   /\ samples.recentTopSets[i].actualVx # NoNum})

\* the velocity and HRV channels are inactive without a sample or with fewer
\* than 3 windowed values (windows 10 and 14), and classified otherwise
C22_ZChannelsByWindow ==
    channels # None =>
        /\ (samples.todayVelocity = NoNum \/ Min2(Len(samples.velocityBaseline), 10) < 3)
               => channels[1].velocity.class = NULL
        /\ (samples.todayVelocity # NoNum /\ Min2(Len(samples.velocityBaseline), 10) >= 3)
               => channels[1].velocity.class \in Classes
        /\ (samples.todayLnRMSSD = NoNum \/ Min2(Len(samples.hrvBaseline), 14) < 3)
               => channels[1].hrv.class = NULL
        /\ (samples.todayLnRMSSD # NoNum /\ Min2(Len(samples.hrvBaseline), 14) >= 3)
               => channels[1].hrv.class \in Classes

\* C22: each of the three readiness channels is inactive (class null) whenever
\* today's sample is missing or its trailing window holds fewer than 3 usable
\* samples, and a channel with a sample and 3 or more windowed samples is
\* classified GREEN, YELLOW or RED.  The recovery channel does not keep this:
\* it is classified from 2 usable sets on.
C22_InactiveBelowThree ==
    /\ C22_ZChannelsByWindow
    /\ channels # None =>
           /\ UsableTopSets < 3 => channels[1].vara.class = NULL
           /\ UsableTopSets >= 3 => channels[1].vara.class \in Classes

\* the recovery channel is inactive under 2 usable sets and classified from 2 on
C22_VaraFromTwo ==
    channels # None =>
        /\ UsableTopSets < 2 => channels[1].vara.class = NULL
        /\ UsableTopSets >= 2 => channels[1].vara.class \in Classes

\* the recovery channel classified from exactly two usable sets
C22_Witness ==
    /\ C22_VaraFromTwo
    /\ channels # None
    /\ UsableTopSets = 2
    /\ channels[1].vara.class = "RED"

\* ------------------------------------------------------------------- C23
\* the top-effort sets the run read, oldest first
RunTopSets == TopSets(Run.reads[5])

\* the trend correction the rule gives for a window of sets that all have both
\* values: 0 under 4 sets or with the mean overshoot inside [-0.5, 0.5], else of
\* the sign of the mean and of at most 1.5 %
TrendRule(window, varaCorr) ==
    LET n == Len(window)
        total == SeqSum([i \in 1..n |-> window[i].targetVx - window[i].actualVx])
    IN /\ (n < 4 \/ (-n <= 2 * total /\ 2 * total <= n)) => varaCorr = 0
       /\ (n >= 4 /\ 2 * total > n) => varaCorr > 0
       /\ (n >= 4 /\ 2 * total < -n) => varaCorr < 0
       /\ -Pct(15, 1000) <= varaCorr /\ varaCorr <= Pct(15, 1000)

\* the rule holds of the sets with both values among the 6 most recent top sets
C23_TrendOfLastSixTopSets ==
    Ran => TrendRule(WithVara(SliceLast(RunTopSets, 6)), Run.varaCorr)

\* C23: the trend correction of a run is computed from the 6 most recent
\* top-effort sets that have both target and actual effort-distance: 0 with
\* fewer than 4 such sets or a mean overshoot within [-0.5, 0.5], positive with
\* a mean above 0.5, negative with a mean below -0.5, never beyond 1.5 %.
C23_TrendOfSixWithBoth ==
    /\ C23_TrendOfLastSixTopSets
    /\ Ran => TrendRule(SliceLast(WithVara(RunTopSets), 6), Run.varaCorr)

\* a run over seven top sets, four of them with both values and a mean
\* overshoot of 2, of which the six most recent hold three: no correction
C23_Witness ==
    /\ Ran
    /\ Len(RunTopSets) = 7
    /\ Len(WithVara(RunTopSets)) = 4
    /\ Len(WithVara(SliceLast(RunTopSets, 6))) = 3
    /\ \A i \in 1..4 : WithVara(RunTopSets)[i].targetVx - WithVara(RunTopSets)[i].actualVx = 2
    /\ Run.varaCorr = 0

\* ------------------------------------------------------------------- C24
\* a non-trial run that follows a non-trial run of the same date with the same
\* sessions in the store
SecondRunOfTheDay ==
    /\ Ran
    /\ ~Run.dryRun
    /\ nRuns' = nRuns + 1
    /\ ~lastRun'[1].dryRun
    /\ lastRun'[1].reads[1] = Run.reads[1]
    /\ lastRun'[1].reads[4] = Run.reads[4]

\* C24: the second of two consecutive non-trial runs for the same date, with
\* no session recorded between them, leaves the cycles store as the first run
\* left it, creates no cycle, and names the same cycle in its prescription.
C24_SecondRunKeepsCycles ==
    [][SecondRunOfTheDay =>
         /\ mesocycles' = mesocycles
         /\ lastRun'[1].cycles = <<>>
         /\ lastRun'[1].rec.mesocycleId = Rec.mesocycleId]_vars

\* two non-trial runs of one date behind a break of 14 days or more: the
\* second created a cycle of its own and names it
C24_Witness ==
    /\ Ran
    /\ ~Run.dryRun
    /\ nRuns = 2
    /\ Run.breakDays >= 14
    /\ Run.reset
    /\ Cardinality(mesocycles) >= 2
    /\ \E m \in mesocycles : m.startDateISO = Run.reads[1] /\ m.mesocycleId # Rec.mesocycleId

\* ------------------------------------------------------------------- C25
\* C25: in every prescription the day type of the prescription equals the day
\* type of the day plan returned with it, also after a break forced a volume
\* day and after RED readiness turned a heavy day into a volume day.
C25_DayTypeOfPlan ==
    Ran => Rec.dayPlan.dayType = Rec.dayType

\* a heavy day of the plan prescribed as a volume day: the plan returned is
\* still the heavy day's
C25_Witness ==
    /\ Ran
    /\ Run.planned # None
    /\ Rec.dayPlan.dayType = "heavy"
    /\ Rec.dayType = "volume"
    /\ Rec.capLevel = 2
    /\ Run.dayTypeBeforeCap = "heavy"

\* ------------------------------------------------------------------- C26
\* the active channels of the fusion's input, and the GREEN ones among them
ActiveIn == {i \in 1..3 : fusionIn[i] # NULL}
GreenIn == {i \in 1..3 : fusionIn[i] = "GREEN"}

\* C26 as stated: whenever at least one channel is active and every active
\* channel is GREEN, the fusion returns GREEN with capLevel 0, also with one or
\* two active channels.
C26_AllActiveGreenGivesGreen ==
    (fusionOut # None /\ ActiveIn # {} /\ GreenIn = ActiveIn) =>
        (fusionOut[1].combined = "GREEN" /\ fusionOut[1].capLevel = 0)

\* C26, amended: with two or three active channels, all GREEN, the fusion
\* returns GREEN with capLevel 0; with a single active channel, GREEN, it
\* returns YELLOW with capLevel 1.
C26_TwoGreenGiveGreen ==
    (fusionOut # None /\ ActiveIn # {} /\ GreenIn = ActiveIn) =>
        /\ Cardinality(ActiveIn) >= 2 =>
               (fusionOut[1].combined = "GREEN" /\ fusionOut[1].capLevel = 0)
        /\ Cardinality(ActiveIn) = 1 =>
               (fusionOut[1].combined = "YELLOW" /\ fusionOut[1].capLevel = 1)

\* HRV GREEN alone: YELLOW
C26_Witness ==
    /\ fusionOut # None
    /\ fusionIn = <<NULL, "GREEN", NULL>>
    /\ fusionOut[1].combined = "YELLOW"
    /\ fusionOut[1].capLevel = 1

\* ------------------------------------------------------------------- C27
\* the classes by severity
Severity(c) == IF c = "GREEN" THEN 0 ELSE IF c = "YELLOW" THEN 1 ELSE 2

\* the fusion of three classes
Fused(classes) ==
    combineReadiness(Channel("velocity", classes[1]), Channel("hrv", classes[2]),
                     Channel("vara", classes[3]))

\* the inputs that differ from the fusion's input in one active channel, which
\* they class worse
WorseInputs ==
    UNION {{[fusionIn EXCEPT ![i] = c] :
               c \in {k \in Classes : Severity(k) > Severity(fusionIn[i])}} : i \in ActiveIn}

\* C27: for a fixed set of active channels, classing one active channel worse
\* (GREEN -> YELLOW -> RED) never makes the fusion's result less severe: the
\* combined class and capLevel do not decrease.
C27_FusionMonotone ==
    fusionOut # None =>
        \A worse \in WorseInputs :
            /\ Severity(Fused(worse).combined) >= Severity(fusionOut[1].combined)
            /\ Fused(worse).capLevel >= fusionOut[1].capLevel

\* velocity YELLOW with HRV GREEN and Vara YELLOW fuses to YELLOW, and to RED
\* once the velocity channel is RED
C27_Witness ==
    /\ fusionOut # None
    /\ fusionIn = <<"YELLOW", "GREEN", "YELLOW">>
    /\ fusionOut[1].combined = "YELLOW"
    /\ <<"RED", "GREEN", "YELLOW">> \in WorseInputs
    /\ Fused(<<"RED", "GREEN", "YELLOW">>).combined = "RED"

\* ------------------------------------------------------------------- C28
\* C28: from a newly created record on, after any sequence of updates
\* (sessions without an estimated max and empty sessions included) the
\* stagnation flag is set exactly when the stagnation counter is 3 or more, and
\* no update lowers the counter other than to 0.
C28_FlagIffThreeWeeks ==
    /\ [](movementProgress # None =>
             (movementProgress[1].stagnationFlagged
                 <=> movementProgress[1].stagnationWeeks >= 3))
    /\ [][(movementProgress # None /\ nCalls' # nCalls) =>
             /\ movementProgress' # None
             /\ \/ movementProgress'[1].stagnationWeeks >= movementProgress[1].stagnationWeeks
                \/ movementProgress'[1].stagnationWeeks = 0]_vars

\* a flagged record of counter 3 that went through a session without an
\* estimated max and an empty session
C28_Witness ==
    /\ movementProgress # None
    /\ movementProgress[1].stagnationFlagged
    /\ movementProgress[1].stagnationWeeks = 3
    /\ movementProgress[1].currentE1RM = NoNum
    /\ Len(sessionLog) >= 2
    /\ sessionLog[Len(sessionLog)] = <<>>
    /\ sessionLog[Len(sessionLog) - 1][1].externalLoadKg = 0

\* ------------------------------------------------------------------- C29
\* the days of the week plan at the smallest distance round the week from the
\* weekday of the date
NearestDays ==
    {i \in 1..Len(PlanDays) :
        \A j \in 1..Len(PlanDays) :
            CircularDistance(PlanDays[i].dayOfWeek, Weekday)
            <= CircularDistance(PlanDays[j].dayOfWeek, Weekday)}

\* a weekday that lies ahead of the weekday of the date by its distance round
\* the week, i.e. is reached forwards
Following(dayOfWeek) ==
    (dayOfWeek - Weekday + 7) % 7 = CircularDistance(dayOfWeek, Weekday)

\* two days of the week plan at the smallest distance, one before and one after
\* the weekday of the date
TiedDays ==
    /\ \E i \in NearestDays : Following(PlanDays[i].dayOfWeek)
    /\ \E i \in NearestDays : ~Following(PlanDays[i].dayOfWeek)

\* the day found without an exact match is a day of the week plan at the
\* smallest distance round the week
C29_NearestIsMinimal ==
    ResolvedNearest => \E i \in NearestDays : Run.planned[1] = PlanDays[i]

\* C29: when the week plan has no entry for the weekday and two training days
\* are at the same smallest distance round the week, the following day is
\* returned rather than the previous one; in every case the day returned is at
\* the smallest distance.
C29_TiePrefersNextDay ==
    /\ C29_NearestIsMinimal
    /\ (ResolvedNearest /\ TiedDays) => Following(Run.planned[1].dayOfWeek)

\* a Tuesday in a Monday-Wednesday-Friday week: the Monday is returned
C29_Witness ==
    /\ ResolvedNearest /\ TiedDays
    /\ Weekday = 2
    /\ Run.planned[1].dayOfWeek = 1
    /\ \E i \in NearestDays : PlanDays[i].dayOfWeek = 3

\* ------------------------------------------------------------------- C30
\* a backup with at least one movement is restored record for record
C30_RoundTripWithMovements ==
    [][(importFullBackup /\ backup[1].data.movements # {})
          => StoreContents' = backup[1].data]_vars

\* C30: importFullBackup of what exportFullBackup returned leaves every store
\* with exactly the exported records, whatever the stores held, so that a
\* second export returns the same store contents as the first.
C30_BackupRoundTrip ==
    /\ C30_RoundTripWithMovements
    /\ [][importFullBackup => StoreContents' = backup[1].data]_vars

\* a backup taken with no movement in the store, and the stores after it was
\* imported: the preset movements under new identifiers, and the variants of
\* the backup together with four new ones
C30_Witness ==
    /\ backup # None
    /\ backup[1].data.movements = {}
    /\ backup[1].data.variants = PresetVariants(1)
    /\ movements = PresetMovements(2)
    /\ variants = PresetVariants(1) \cup PresetVariants(2)
    /\ nSeeds = 2
    /\ StoreContents # backup[1].data

====
